---- MODULE Spec2Model ----
(***************************************************************************)
(* Airfare-Info-Scraper: the acquisition engine (src/src/scraper.py,        *)
(* SeatsAeroScraper.run and its helpers) as a state machine.                *)
(*                                                                         *)
(* Python strings are sequences of one-character strings, so that the      *)
(* substring tests of the code ("in") are computed, not assumed.           *)
(* An optional value (None or a value) is the empty set or a singleton.    *)
(***************************************************************************)
EXTENDS Integers, Sequences, FiniteSets, TLC

\* ------------------------------------------------------------------ bounds
\* Routes of the configuration.
NumRoutes == 2
\* Largest value of scraping_settings.retries the configurations range over.
MaxRetries == 3
\* Offers the remote search API returns over one run (all routes together).
MaxOffers == 3
\* Largest number of trips in one enrichment detail.
MaxTrips == 2
\* Largest value of scraping_settings.max_offers_per_route.
MaxCap == 1
\* Longest raw price string, of those made of every character of the alphabet.
MaxStrLen == 3

\* ------------------------------------------------------- optional values
None == {}
Some(x) == {x}
IsNone(o) == o = {}
Get(o) == CHOOSE x \in o : TRUE

\* ---------------------------------------------------------------- strings
UpperChars == <<"A","B","C","D","E","F","G","H","I","J","K","L","M",
                "N","O","P","Q","R","S","T","U","V","W","X","Y","Z">>
LowerChars == <<"a","b","c","d","e","f","g","h","i","j","k","l","m",
                "n","o","p","q","r","s","t","u","v","w","x","y","z">>

\* str.lower() on one character.
LowerChar(c) ==
  IF \E i \in 1..Len(UpperChars) : UpperChars[i] = c
  THEN LowerChars[CHOOSE i \in 1..Len(UpperChars) : UpperChars[i] = c]
  ELSE c

\* str.lower()
Lower(s) == [i \in 1..Len(s) |-> LowerChar(s[i])]

\* Python's "a in b" on strings: a occurs in b as a contiguous run.
IsSubstr(a, b) ==
  \E k \in 0..(Len(b) - Len(a)) :
     \A i \in 1..Len(a) : b[k + i] = a[i]

DigitChars == <<"0","1","2","3","4","5","6","7","8","9">>

RECURSIVE Digits(_)
\* str(n) for n >= 0
Digits(n) ==
  IF n < 10 THEN <<DigitChars[n + 1]>>
  ELSE Digits(n \div 10) \o <<DigitChars[(n % 10) + 1]>>

\* str(n) for an integer
IntStr(n) == IF n < 0 THEN <<"-">> \o Digits(-n) ELSE Digits(n)

\* ------------------------------------------------------------ string data
AAdvantage == <<"A","A","d","v","a","n","t","a","g","e">>
AmericanAAdvantage ==
  <<"A","m","e","r","i","c","a","n"," ","A","A","d","v","a","n","t","a","g","e">>
DeltaSkyMiles == <<"D","e","l","t","a"," ","S","k","y","M","i","l","e","s">>
Aeroplan == <<"a","e","r","o","p","l","a","n">>
SkyMilesUpper == <<"S","K","Y","M","I","L","E","S">>
EmptyStr == <<>>

SearchUrl ==
  <<"h","t","t","p","s",":","/","/","s","e","a","t","s",".","a","e","r","o","/",
    "_","a","p","i","/","s","e","a","r","c","h","_","p","a","r","t","i","a","l">>
EnrichUrlPrefix ==
  <<"h","t","t","p","s",":","/","/","s","e","a","t","s",".","a","e","r","o","/",
    "_","a","p","i","/","e","n","r","i","c","h","m","e","n","t","_","m","o","d",
    "e","r","n","/">>
\* The text the handler looks for in the message of a failed enrichment.
RateLimitText == <<"4","2","9">>
\* The text of an exception raised by the page executor itself (a timeout, a
\* closed page); executor texts are taken to hold no "429".
TransportText == <<"T","i","m","e","o","u","t">>

\* The run's timestamp (datetime.now at construction) and the target date are
\* fixed strings of the run.
RunTimestamp == <<"T","0">>
TargetDate == <<"D","7">>
MetaDate == <<"D","1">>

\* --------------------------------------------------- Python value helpers
\* "x or d" on an optional string: None and "" are falsy.
OrStr(o, d) == IF IsNone(o) \/ Get(o) = EmptyStr THEN d ELSE o

\* f"{x}" of an optional string: None prints as the text None.
FmtOptStr(o) == IF IsNone(o) THEN <<"N","o","n","e">> ELSE Get(o)

RECURSIVE LStrip(_)
LStrip(s) == IF Len(s) > 0 /\ Head(s) = " " THEN LStrip(Tail(s)) ELSE s

RECURSIVE RStrip(_)
RStrip(s) ==
  IF Len(s) > 0 /\ s[Len(s)] = " " THEN RStrip(SubSeq(s, 1, Len(s) - 1)) ELSE s

\* str.strip()
Strip(s) == RStrip(LStrip(s))

Abs(n) == IF n < 0 THEN -n ELSE n

\* A decimal number n / 10^places, as the pair the code's round() yields.
Dec(n, places) == [scaled |-> n, places |-> places]

RECURSIVE ScaledDiv(_, _, _)
\* Long division: the floor of num * 10^places / den and what remains, den > 0.
ScaledDiv(num, den, places) ==
  IF places = 0 THEN [q |-> num \div den, r |-> num % den]
  ELSE LET p == ScaledDiv(num, den, places - 1)
       IN  [q |-> p.q * 10 + ((p.r * 10) \div den), r |-> (p.r * 10) % den]

\* round(num / den, places) as a scaled integer, ties to even (Python's round),
\* den > 0.
RoundHalfEven(num, den, places) ==
  LET d == ScaledDiv(num, den, places)
  IN  IF 2 * d.r < den THEN d.q
      ELSE IF 2 * d.r > den THEN d.q + 1
      ELSE IF d.q % 2 = 0 THEN d.q ELSE d.q + 1

\* f"{x:.2f}" of a decimal with two places.
Fmt2f(d) ==
  LET n == Abs(d.scaled)
      cents == n % 100
  IN  (IF d.scaled < 0 THEN <<"-">> ELSE <<>>)
      \o Digits(n \div 100) \o <<".">>
      \o <<DigitChars[(cents \div 10) + 1], DigitChars[(cents % 10) + 1]>>

\* ------------------------------------------------------------- the config
\* route.programs of route i (config.routes, in configured order).
RoutePrograms(i) ==
  IF i % 2 = 1 THEN <<AAdvantage>> ELSE <<Aeroplan, SkyMilesUpper>>

\* --------------------------------------------------- what the remote returns
\* One offer of a search result (RawOfferMeta): the keys run() reads.
Offer(src, id) ==
  [oa |-> Some(<<"L","H","R">>), da |-> Some(<<"D","F","W">>), source |-> src,
   date |-> Some(MetaDate), stops |-> Some(0), id |-> id]

\* The offers a search result is made of: a source that holds a configured
\* program of route 1; one that holds a program of route 2 in another case,
\* with an identifier that holds the digits 429; an absent source.
Offers ==
  { Offer(Some(AmericanAAdvantage), <<"a","1">>),
    Offer(Some(DeltaSkyMiles), <<"x","4","2","9">>),
    Offer(None, <<"d","4">>) }

Segment(fn) ==
  [DepartsAt |-> Some(<<"t","1">>), ArrivesAt |-> Some(<<"t","2">>),
   FlightNumber |-> Some(fn), Distance |-> Some(4744),
   AircraftName |-> None, Cabin |-> Some(<<"J">>)]

\* The trips of the enrichment details of the run: the k-th detail holds the
\* first k of them.
TripCatalogue(k) ==
  IF k % 2 = 1
  THEN [AvailabilitySegments |-> <<Segment(<<"A","A","5","0">>)>>,
        MileageCost |-> Some(75000), TotalTaxes |-> Some(12300),
        TaxesCurrency |-> Some(<<"U","S","D">>),
        TaxesCurrencySymbol |-> Some(<<"$">>),
        TotalDuration |-> Some(570), Cabin |-> Some(<<"J">>),
        Stops |-> Some(0), FlightNumbers |-> Some(<<"A","A","5","0">>)]
  ELSE [AvailabilitySegments |->
          <<Segment(<<"B","A","1">>), Segment(<<"A","A","2">>)>>,
        MileageCost |-> None, TotalTaxes |-> Some(560),
        TaxesCurrency |-> None, TaxesCurrencySymbol |-> None,
        TotalDuration |-> None, Cabin |-> Some(<<"Y">>),
        Stops |-> Some(1), FlightNumbers |-> None]

\* The enrichment detail with k trips.
Detail(k) ==
  [departureDate |-> None, originAirport |-> None, destinationAirport |-> None,
   lastUpdatedMinutes |-> None, trips |-> [j \in 1..k |-> TripCatalogue(j)]]

Details == { Detail(k) : k \in 0..MaxTrips }

\* ------------------------------------------------- SeatsAeroScraper helpers
RECURSIVE ProgramMatchesFrom(_, _, _)
\* The loop of _program_matches from the i-th configured program on.
ProgramMatchesFrom(src, configured, i) ==
  IF i > Len(configured) THEN FALSE
  ELSE IF IsSubstr(Lower(configured[i]), src) \/ IsSubstr(src, Lower(configured[i]))
       THEN TRUE
       ELSE ProgramMatchesFrom(src, configured, i + 1)

\* Mutant: the source is not put in lower case.
_program_matches_m(source, configured) ==
  ProgramMatchesFrom(Get(OrStr(source, Some(EmptyStr))), configured, 1)

\* _program_matches(source, configured); source is what meta.get("source", "")
\* gave: a string, or None when the key holds null.
_program_matches(source, configured) ==
  ProgramMatchesFrom(Lower(Get(OrStr(source, Some(EmptyStr)))), configured, 1)

\* _format_duration(minutes_val)
_format_duration(minutes_val) ==
  IF IsNone(minutes_val) THEN None
  ELSE LET m == Get(minutes_val)
       IN  Some(IntStr(m \div 60) \o <<"h"," ">> \o IntStr(m % 60) \o <<"m">>)

\* _last_updated_ts(minutes_ago): the clock's reading minutes_ago minutes
\* before now, as a text naming that instant.
_last_updated_ts(minutes_ago) == <<"n","o","w","-">> \o IntStr(minutes_ago)

\* Mutant: a zero mileage cost is not told from a null one, and the quotient
\* is not made a percentage.
CentsPerPoint_m(mileage_cost, taxes) ==
  IF IsNone(mileage_cost) \/ IsNone(taxes) THEN None
  ELSE IF Get(mileage_cost) = 0 THEN Some(Dec(0, 4))
  ELSE LET mc == Get(mileage_cost)
           num == Get(taxes)
       IN  Some(Dec(IF mc > 0 THEN RoundHalfEven(num, mc, 4)
                    ELSE RoundHalfEven(-num, -mc, 4), 4))

\* cents per point of a trip (_build_records): round(taxes / mileage_cost * 100, 4).
CentsPerPoint(mileage_cost, taxes) ==
  IF IsNone(mileage_cost) \/ IsNone(taxes) THEN None
  ELSE IF Get(mileage_cost) = 0 THEN None
  ELSE LET mc == Get(mileage_cost)
           num == Get(taxes) * 100
       IN  Some(Dec(IF mc > 0 THEN RoundHalfEven(num, mc, 4)
                    ELSE RoundHalfEven(-num, -mc, 4), 4))

\* cash amount of a trip (_build_records): round(taxes / 100, 2).
CashAmount(taxes) == IF IsNone(taxes) THEN None ELSE Some(Dec(Get(taxes), 2))

\* points_price_raw of a trip (_build_records).
PointsPriceRaw(mileage_cost, cash_amount, taxes_symbol, taxes_currency) ==
  IF IsNone(mileage_cost) THEN None
  ELSE IF IsNone(cash_amount)
       THEN Some(IntStr(Get(mileage_cost)) \o <<" ","p","t","s">>)
       ELSE Some(Strip(IntStr(Get(mileage_cost)) \o <<" ","p","t","s"," ","+"," ">>
                       \o Get(OrStr(taxes_symbol, Some(EmptyStr)))
                       \o Fmt2f(Get(cash_amount)) \o <<" ">>
                       \o Get(OrStr(taxes_currency, Some(EmptyStr)))))

\* cash_copay_raw of a trip (_build_records).
CashCopayRaw(cash_amount, taxes_symbol, taxes_currency) ==
  IF IsNone(cash_amount) THEN None
  ELSE Some(Strip(Get(OrStr(taxes_symbol, Some(EmptyStr)))
                  \o Fmt2f(Get(cash_amount)) \o <<" ">>
                  \o FmtOptStr(taxes_currency)))

\* One leg of a record, from one availability segment.
Leg(seg) ==
  [leg_departure_datetime |-> seg.DepartsAt,
   leg_arrival_datetime |-> seg.ArrivesAt,
   leg_flight_number |-> seg.FlightNumber,
   leg_distance |-> seg.Distance,
   leg_airplane |-> seg.AircraftName,
   leg_class |-> seg.Cabin]

\* Mutant: the minimal record is given a default currency.
_build_minimal_record_m(meta, target_date) ==
  [inputs_from |-> meta.oa,
   inputs_to |-> meta.da,
   program |-> meta.source,
   departure_date |-> OrStr(meta.date, Some(target_date)),
   duration |-> None,
   class |-> None,
   stops |-> meta.stops,
   flight_number |-> None,
   last_updated |-> Some(RunTimestamp),
   legs |-> <<>>,
   pricing |->
     [points_price_raw |-> None,
      points_amount |-> None,
      points_program_currency |-> meta.source,
      cash_copay_raw |-> None,
      cash_copay_amount |-> None,
      cash_copay_currency |-> Some(<<"U","S","D">>),
      cents_per_point |-> None,
      total_value_usd |-> None]]

\* _build_minimal_record(meta, target_date)
_build_minimal_record(meta, target_date) ==
  [inputs_from |-> meta.oa,
   inputs_to |-> meta.da,
   program |-> meta.source,
   departure_date |-> OrStr(meta.date, Some(target_date)),
   duration |-> None,
   class |-> None,
   stops |-> meta.stops,
   flight_number |-> None,
   last_updated |-> Some(RunTimestamp),
   legs |-> <<>>,
   pricing |->
     [points_price_raw |-> None,
      points_amount |-> None,
      points_program_currency |-> meta.source,
      cash_copay_raw |-> None,
      cash_copay_amount |-> None,
      cash_copay_currency |-> None,
      cents_per_point |-> None,
      total_value_usd |-> None]]

\* The record _build_records makes of one trip; the record's program is the
\* offer's source, as in the minimal record.
TripRecord(meta, detail, trip) ==
  LET mileage_cost == trip.MileageCost
      taxes == trip.TotalTaxes
      cash_amount == CashAmount(taxes)
  IN  [inputs_from |-> OrStr(detail.originAirport, meta.oa),
       inputs_to |-> OrStr(detail.destinationAirport, meta.da),
       program |-> meta.source,
       departure_date |-> OrStr(meta.date, detail.departureDate),
       duration |-> _format_duration(trip.TotalDuration),
       class |-> trip.Cabin,
       stops |-> trip.Stops,
       flight_number |-> trip.FlightNumbers,
       last_updated |->
         IF IsNone(detail.lastUpdatedMinutes) THEN Some(RunTimestamp)
         ELSE Some(_last_updated_ts(Get(detail.lastUpdatedMinutes))),
       legs |-> [j \in 1..Len(trip.AvailabilitySegments) |->
                   Leg(trip.AvailabilitySegments[j])],
       pricing |->
         [points_price_raw |->
            PointsPriceRaw(mileage_cost, cash_amount,
                           trip.TaxesCurrencySymbol, trip.TaxesCurrency),
          points_amount |-> mileage_cost,
          points_program_currency |-> meta.source,
          cash_copay_raw |->
            CashCopayRaw(cash_amount, trip.TaxesCurrencySymbol, trip.TaxesCurrency),
          cash_copay_amount |-> cash_amount,
          cash_copay_currency |-> trip.TaxesCurrency,
          cents_per_point |-> CentsPerPoint(mileage_cost, taxes),
          total_value_usd |-> None]]

\* Mutant: the trips are gone over from the last to the first.
_build_records_m(meta, detail) ==
  [t \in 1..Len(detail.trips) |->
     TripRecord(meta, detail, detail.trips[Len(detail.trips) + 1 - t])]

\* _build_records(meta, detail): one record per trip, in trip order.
_build_records(meta, detail) ==
  [t \in 1..Len(detail.trips) |-> TripRecord(meta, detail, detail.trips[t])]

\* ------------------------------------------------- DataParser (utils.py)
\* The characters of the class [\d\.] of the two patterns.
IsNumChar(c) == c = "." \/ \E i \in 1..Len(DigitChars) : DigitChars[i] = c

DigitVal(c) == (CHOOSE i \in 1..Len(DigitChars) : DigitChars[i] = c) - 1

\* What re.search(r'([\d\.]+)', s) finds: the place of the first character of
\* the class (0: no match) and of the last character of the run it starts.
TokenStart(s) ==
  IF \E i \in 1..Len(s) : IsNumChar(s[i])
  THEN CHOOSE i \in 1..Len(s) :
         IsNumChar(s[i]) /\ \A j \in 1..(i - 1) : ~IsNumChar(s[j])
  ELSE 0

TokenEnd(s, from) ==
  CHOOSE e \in from..Len(s) :
    /\ \A j \in from..e : IsNumChar(s[j])
    /\ e = Len(s) \/ ~IsNumChar(s[e + 1])

\* group(1) of the match, when there is one.
FirstToken(s) == SubSeq(s, TokenStart(s), TokenEnd(s, TokenStart(s)))

\* Whether float() accepts a text of digits and dots: one dot at most, and a
\* digit (float(".") and float("1.2.3") raise ValueError).
FloatAccepts(tok) ==
  /\ Cardinality({i \in 1..Len(tok) : tok[i] = "."}) <= 1
  /\ \E i \in 1..Len(tok) : tok[i] # "."

RECURSIVE DigitsValue(_)
\* The number a text of digits writes ("" gives 0).
DigitsValue(ds) ==
  IF ds = <<>> THEN 0
  ELSE DigitsValue(SubSeq(ds, 1, Len(ds) - 1)) * 10 + DigitVal(ds[Len(ds)])

RECURSIVE Normal(_)
\* A decimal without needless places, so that equal numbers are equal values.
Normal(d) ==
  IF d.places > 0 /\ d.scaled % 10 = 0
  THEN Normal(Dec(d.scaled \div 10, d.places - 1))
  ELSE d

\* float(tok) of a text float() accepts, as a decimal.
FloatOf(tok) ==
  LET dots == {i \in 1..Len(tok) : tok[i] = "."}
      nodot == IF dots = {} THEN tok
               ELSE LET d == CHOOSE i \in dots : TRUE
                    IN  SubSeq(tok, 1, d - 1) \o SubSeq(tok, d + 1, Len(tok))
      places == IF dots = {} THEN 0 ELSE Len(tok) - (CHOOSE i \in dots : TRUE)
  IN  Normal(Dec(DigitsValue(nodot), places))

\* x * 1000 on a decimal.
Times1000(d) == Normal(Dec(d.scaled * 1000, d.places))

RECURSIVE SkipRun(_)
\* s from the end of the run of [\d\.] it begins with.
SkipRun(s) == IF s # <<>> /\ IsNumChar(Head(s)) THEN SkipRun(Tail(s)) ELSE s

RECURSIVE StripNumbers(_)
\* re.sub(r'[\d\.]+k?', '', s): every run of the class, with a "k" right
\* after it, is taken out.
StripNumbers(s) ==
  IF s = <<>> THEN <<>>
  ELSE IF IsNumChar(Head(s))
       THEN LET rest == SkipRun(s)
            IN  IF rest # <<>> /\ Head(rest) = "k"
                THEN StripNumbers(Tail(rest))
                ELSE StripNumbers(rest)
       ELSE <<Head(s)>> \o StripNumbers(Tail(s))

\* s.replace(c, '')
Without(s, c) == SelectSeq(s, LAMBDA x : x # c)

IsLetter(c) ==
  \E i \in 1..Len(UpperChars) : UpperChars[i] = c \/ LowerChars[i] = c

UpperChar(c) ==
  IF \E i \in 1..Len(LowerChars) : LowerChars[i] = c
  THEN UpperChars[CHOOSE i \in 1..Len(LowerChars) : LowerChars[i] = c]
  ELSE c

\* str.title(): a letter that follows no letter is put in upper case, every
\* other letter in lower case.
Title(s) ==
  [i \in 1..Len(s) |->
     IF i = 1 \/ ~IsLetter(s[i - 1]) THEN UpperChar(s[i]) ELSE LowerChar(s[i])]

\* What a call of a DataParser method does: it returns a pair, or raises.
Returned(a, c) == [outcome |-> "return", amount |-> a, currency |-> c]
Raised == [outcome |-> "raise", amount |-> None, currency |-> None]

\* Whether the match of r'([\d\.]+)(k)?' in s has its group 2.
HasKMarker(s) ==
  LET e == TokenEnd(s, TokenStart(s))
  IN  e < Len(s) /\ s[e + 1] = "k"

\* DataParser.parse_points_string(raw); raw is a string or None.
parse_points_string(raw) ==
  IF IsNone(raw) \/ Get(raw) = EmptyStr THEN Returned(None, None)
  ELSE LET low == Lower(Get(raw))
       IN  IF TokenStart(low) = 0 THEN Returned(None, None)
           ELSE IF ~FloatAccepts(FirstToken(low)) THEN Raised
           ELSE Returned(
                  Some(IF HasKMarker(low) THEN Times1000(FloatOf(FirstToken(low)))
                       ELSE FloatOf(FirstToken(low))),
                  Some(Title(Strip(Without(StripNumbers(low), "+")))))

\* currency_map of parse_cash_string, in the order its loop goes over it.
CurrencySymbols == <<"$", "€", "£", "¥">>
CurrencyCodes ==
  <<<<"U","S","D">>, <<"E","U","R">>, <<"G","B","P">>, <<"J","P","Y">>>>

\* The code the loop over currency_map ends with: that of the first symbol,
\* in the map's order, that is in raw; "USD" when none is.
CurrencyCode(raw) ==
  IF \E i \in 1..Len(CurrencySymbols) : IsSubstr(<<CurrencySymbols[i]>>, raw)
  THEN CurrencyCodes[CHOOSE i \in 1..Len(CurrencySymbols) :
                       /\ IsSubstr(<<CurrencySymbols[i]>>, raw)
                       /\ \A j \in 1..(i - 1) : ~IsSubstr(<<CurrencySymbols[j]>>, raw)]
  ELSE CurrencyCodes[1]

\* DataParser.parse_cash_string(raw); raw is a string or None.
parse_cash_string(raw) ==
  IF IsNone(raw) \/ Get(raw) = EmptyStr THEN Returned(None, None)
  ELSE LET r == Get(raw)
       IN  IF TokenStart(r) = 0 THEN Returned(Some(Dec(0, 0)), Some(CurrencyCode(r)))
           ELSE IF ~FloatAccepts(FirstToken(r)) THEN Raised
           ELSE Returned(Some(FloatOf(FirstToken(r))), Some(CurrencyCode(r)))

\* ------------------------------------------------- transform.py: values
\* The values json.loads makes.  k is the name of the value's Python type;
\* the value itself is in the field of its type: b of a bool, n of an int,
\* d of a float, s of a string, xs of a list, f of a mapping.  The strings of
\* a record are sequences of characters, as the parsers read them; the keys
\* of a mapping, and the strings of a schema (field name), are whole names.
JNone ==
  [k |-> "NoneType", b |-> FALSE, n |-> 0, d |-> Dec(0, 0), s |-> <<>>,
   name |-> "", xs |-> <<>>, f |-> <<>>]
JBool(b) == [JNone EXCEPT !.k = "bool", !.b = b]
JInt(n) == [JNone EXCEPT !.k = "int", !.n = n]
JFloat(d) == [JNone EXCEPT !.k = "float", !.d = d]
JStr(s) == [JNone EXCEPT !.k = "str", !.s = s]
JName(t) == [JNone EXCEPT !.k = "str", !.name = t]
JList(xs) == [JNone EXCEPT !.k = "list", !.xs = xs]
JDict(f) == [JNone EXCEPT !.k = "dict", !.f = f]
EmptyDict == JDict(<<>>)
EmptyList == JList(<<>>)

\* bool(x), the test `if x`, `x or y` and `not x` make.
Truthy(x) ==
  CASE x.k = "NoneType" -> FALSE
    [] x.k = "bool" -> x.b
    [] x.k = "int" -> x.n # 0
    [] x.k = "float" -> x.d.scaled # 0
    [] x.k = "str" -> Len(x.s) > 0 \/ Len(x.name) > 0
    [] x.k = "list" -> Len(x.xs) > 0
    [] x.k = "dict" -> DOMAIN x.f # {}

\* x or y
PyOr(x, y) == IF Truthy(x) THEN x ELSE y

\* d.get(key, default) of a mapping d
DictGet(d, key, default) == IF key \in DOMAIN d.f THEN d.f[key] ELSE default

\* _safe_get(d, key, default)
_safe_get(d, key, default) ==
  IF d.k = "dict" THEN DictGet(d, key, default) ELSE default

\* The amount and the label a parser returned, as values of a record.
NumJ(o) == IF IsNone(o) THEN JNone ELSE JFloat(Get(o))
StrJ(o) == IF IsNone(o) THEN JNone ELSE JStr(Get(o))

\* A parser called on a value that passed `if raw`: a value that is no
\* string has no lower() and cannot be searched, and the call raises.
ParsePoints(raw) ==
  IF raw.k = "str" THEN parse_points_string(Some(raw.s)) ELSE Raised
ParseCash(raw) ==
  IF raw.k = "str" THEN parse_cash_string(Some(raw.s)) ELSE Raised

\* Mutant: the amount and the currency are derived from the raw text
\* whenever there is one.
_normalize_points_m(pricing) ==
  LET points_raw == _safe_get(pricing, "points_price_raw", JNone)
      points_amount == _safe_get(pricing, "points_amount", JNone)
      points_curr == _safe_get(pricing, "points_program_currency", JNone)
      parses == Truthy(points_raw)
      parsed == ParsePoints(points_raw)
  IN  IF parses /\ parsed.outcome = "raise"
      THEN [outcome |-> "raise", pricing |-> pricing]
      ELSE [outcome |-> "return",
            pricing |->
              JDict([points_price_raw |-> points_raw,
                     points_amount |->
                       IF parses THEN NumJ(parsed.amount) ELSE points_amount,
                     points_program_currency |->
                       IF parses THEN StrJ(parsed.currency) ELSE points_curr])]

\* _normalize_points(pricing).  It raises when parse_points_string does.
_normalize_points(pricing) ==
  LET points_raw == _safe_get(pricing, "points_price_raw", JNone)
      points_amount == _safe_get(pricing, "points_amount", JNone)
      points_curr == _safe_get(pricing, "points_program_currency", JNone)
      parses == points_amount = JNone /\ Truthy(points_raw)
      parsed == ParsePoints(points_raw)
  IN  IF parses /\ parsed.outcome = "raise"
      THEN [outcome |-> "raise", pricing |-> pricing]
      ELSE [outcome |-> "return",
            pricing |->
              JDict([points_price_raw |-> points_raw,
                     points_amount |->
                       IF parses THEN PyOr(points_amount, NumJ(parsed.amount))
                       ELSE points_amount,
                     points_program_currency |->
                       IF parses THEN PyOr(points_curr, StrJ(parsed.currency))
                       ELSE points_curr])]

\* _normalize_cash(pricing).  It raises when parse_cash_string does.
_normalize_cash(pricing) ==
  LET cash_raw == _safe_get(pricing, "cash_copay_raw", JNone)
      cash_amount == _safe_get(pricing, "cash_copay_amount", JNone)
      cash_curr == _safe_get(pricing, "cash_copay_currency", JNone)
      parses == cash_amount = JNone /\ Truthy(cash_raw)
      parsed == ParseCash(cash_raw)
  IN  IF parses /\ parsed.outcome = "raise"
      THEN [outcome |-> "raise", pricing |-> pricing]
      ELSE [outcome |-> "return",
            pricing |->
              JDict([cash_copay_raw |-> cash_raw,
                     cash_copay_amount |->
                       IF parses THEN PyOr(cash_amount, NumJ(parsed.amount))
                       ELSE cash_amount,
                     cash_copay_currency |->
                       IF parses THEN PyOr(cash_curr, StrJ(parsed.currency))
                       ELSE cash_curr])]

RECURSIVE Pow10(_)
Pow10(p) == IF p = 0 THEN 1 ELSE 10 * Pow10(p - 1)

\* int(x) of a float: what is left of the point is kept.
IntOfFloat(d) ==
  LET q == Abs(d.scaled) \div Pow10(d.places)
  IN  IF d.scaled < 0 THEN -q ELSE q

\* str(val) of a string, and of an empty list or mapping.
PyStr(val) ==
  CASE val.k = "str" -> val.s
    [] val.k = "list" /\ Len(val.xs) = 0 -> <<"[", "]">>
    [] val.k = "dict" /\ DOMAIN val.f = {} -> <<"{", "}">>

\* int(val) of a duration that isinstance takes for an int or a float; a
\* boolean is an int to isinstance.
MinutesVal(val) ==
  CASE val.k = "int" -> val.n
    [] val.k = "bool" -> IF val.b THEN 1 ELSE 0
    [] val.k = "float" -> IntOfFloat(val.d)

\* Hours and minutes by a division that rounds toward zero.
HoursMinutes_trunc(minutes_val) ==
  LET a == Abs(minutes_val)
      sg == IF minutes_val < 0 THEN -1 ELSE 1
  IN  JStr(IntStr(sg * (a \div 60)) \o <<"h", " ">>
             \o IntStr(sg * (a % 60)) \o <<"m">>)

\* f"{hours}h {minutes}m" with hours = minutes_val // 60 and
\* minutes = minutes_val % 60.
HoursMinutes(minutes_val) ==
  LET hours == minutes_val \div 60
      minutes == minutes_val % 60
  IN  JStr(IntStr(hours) \o <<"h", " ">> \o IntStr(minutes) \o <<"m">>)

\* str(val) mistaken for repr(val): a string comes back in quotes.
_format_duration_repr(val) ==
  IF val = JNone THEN JNone
  ELSE IF val.k \in {"int", "float", "bool"} THEN HoursMinutes(MinutesVal(val))
  ELSE JStr(<<"'">> \o PyStr(val) \o <<"'">>)

\* _format_duration(val) of _transform_record.
_transform_record_format_duration(val) ==
  IF val = JNone THEN JNone
  ELSE IF val.k \in {"int", "float", "bool"} THEN HoursMinutes(MinutesVal(val))
  ELSE JStr(PyStr(val))

\* The keys of a leg and of a record that _transform_record copies.
LegFields ==
  {"leg_departure_datetime", "leg_arrival_datetime", "leg_flight_number",
   "leg_distance", "leg_airplane", "leg_class"}
CopiedFields ==
  {"inputs_from", "inputs_to", "program", "departure_date", "class", "stops",
   "flight_number", "last_updated"}
PricingFields8 ==
  {"points_price_raw", "points_amount", "points_program_currency",
   "cash_copay_raw", "cash_copay_amount", "cash_copay_currency",
   "cents_per_point", "total_value_usd"}
CanonicalFields == CopiedFields \cup {"duration", "legs", "pricing"}

\* What the loop `for leg in ...` goes over: the entries of a list, the
\* characters of a string, the keys of a mapping (strings, kept here as
\* empty ones: a key is no mapping, whatever its text).
Iterable(x) == x.k \in {"list", "str", "dict"}
Entries(x) ==
  CASE x.k = "list" -> x.xs
    [] x.k = "str" -> [i \in 1..Len(x.s) |-> JStr(<<x.s[i]>>)]
    [] x.k = "dict" -> [i \in 1..Cardinality(DOMAIN x.f) |-> JStr(<<>>)]

\* The mapping legs_out gets for one entry of legs.
LegOut(leg) == JDict([f \in LegFields |-> _safe_get(leg, f, JNone)])

\* What a call of _transform_record does: it returns a record, or raises.
RecReturned(r) == [outcome |-> "return", value |-> r]
RecRaised == [outcome |-> "raise", value |-> JNone]

\* _transform_record(rec).  It raises when a normalizer does, when legs
\* cannot be iterated, and when rec or pricing has no get().
_transform_record(rec) ==
  LET pricing == PyOr(_safe_get(rec, "pricing", EmptyDict), EmptyDict)
      points == _normalize_points(pricing)
      cash == _normalize_cash(pricing)
      legs == PyOr(_safe_get(rec, "legs", EmptyList), EmptyList)
      legs_out == [i \in 1..Len(Entries(legs)) |-> LegOut(Entries(legs)[i])]
  IN  IF points.outcome = "raise" \/ cash.outcome = "raise" THEN RecRaised
      ELSE IF ~Iterable(legs) THEN RecRaised
      ELSE IF rec.k # "dict" \/ pricing.k # "dict" THEN RecRaised
      ELSE RecReturned(JDict(
             [f \in CanonicalFields |->
                CASE f = "duration" ->
                       _transform_record_format_duration(DictGet(rec, "duration", JNone))
                  [] f = "legs" -> JList(legs_out)
                  [] f = "pricing" ->
                       JDict([points_price_raw |-> points.pricing.f.points_price_raw,
                              points_amount |-> points.pricing.f.points_amount,
                              points_program_currency |->
                                points.pricing.f.points_program_currency,
                              cash_copay_raw |-> cash.pricing.f.cash_copay_raw,
                              cash_copay_amount |-> cash.pricing.f.cash_copay_amount,
                              cash_copay_currency |->
                                cash.pricing.f.cash_copay_currency,
                              cents_per_point |->
                                DictGet(pricing, "cents_per_point", JNone),
                              total_value_usd |->
                                DictGet(pricing, "total_value_usd", JNone)])
                  [] OTHER -> DictGet(rec, f, JNone)]))

\* --------------------------------------------- transform.py: the validator
\* types_list of _validate_schema: the list `type` is, or the one-name list.
TypesList(expected_type) ==
  IF expected_type.k = "list" THEN expected_type.xs ELSE <<expected_type>>

\* "t" in types_list
Listed(t, types_list) ==
  \E i \in DOMAIN types_list : types_list[i] = JName(t)

\* isinstance(val, T) for the Python type T that _validate_type puts in
\* py_types for the name t: str, int, (int, float); bool is a subclass of
\* int.  No other name puts a type in py_types.
IsInstanceOf(val, t) ==
  CASE t = JName("string") -> val.k = "str"
    [] t = JName("integer") -> val.k \in {"int", "bool"}
    [] t = JName("number") -> val.k \in {"int", "bool", "float"}
    [] OTHER -> FALSE

\* _validate_type(val, expected_types)
_validate_type(val, expected_types) ==
  \/ Listed("null", expected_types) /\ val = JNone
  \/ \E i \in DOMAIN expected_types : IsInstanceOf(val, expected_types[i])

RECURSIVE ReprNames(_)
ReprNames(ts) ==
  IF Len(ts) = 0 THEN ""
  ELSE IF Len(ts) = 1 THEN "'" \o ts[1].name \o "'"
  ELSE "'" \o ts[1].name \o "', " \o ReprNames(Tail(ts))

\* f"{types_list}" of a list of names
ListRepr(ts) == "[" \o ReprNames(ts) \o "]"

\* The list `errors` names while _validate_schema runs: acc.errors is None
\* (the default of the parameter) or the list, acc.raised says that a
\* statement raised, after which nothing more is done.
Accumulator(errors) == [raised |-> FALSE, errors |-> errors]
Raise(acc) == [acc EXCEPT !.raised = TRUE]

\* errors.append(msg): None has no append.
ErrAppend(acc, msg) ==
  IF acc.raised THEN acc
  ELSE IF IsNone(acc.errors) THEN Raise(acc)
  ELSE [acc EXCEPT !.errors = Some(Append(Get(acc.errors), msg))]

\* The keys of a mapping in the order items() gives them: the order of the
\* file, which the mappings here do not keep; one order is taken.
KeySeq(S) ==
  CHOOSE q \in [1..Cardinality(S) -> S] : {q[i] : i \in DOMAIN q} = S

RECURSIVE RequiredLoop(_, _, _, _)
\* for req in required: if req not in data: errors.append(...)
RequiredLoop(data, required, path, acc) ==
  IF Len(required) = 0 THEN acc
  ELSE RequiredLoop(data, Tail(required), path,
         IF Head(required).name \in DOMAIN data.f THEN acc
         ELSE ErrAppend(acc, path \o ": missing required key '"
                               \o Head(required).name \o "'"))

RECURSIVE _validate_schema(_, _, _, _)
RECURSIVE PropsLoop(_, _, _, _, _)
RECURSIVE ItemsLoop(_, _, _, _, _)

\* for key, subschema in props.items(): if key in data: recurse
PropsLoop(data, props, keys, path, acc) ==
  IF Len(keys) = 0 THEN acc
  ELSE LET key == Head(keys)
       IN  PropsLoop(data, props, Tail(keys), path,
             IF key \in DOMAIN data.f
             THEN _validate_schema(data.f[key], props.f[key],
                                   path \o "." \o key, acc)
             ELSE acc)

\* for idx, item in enumerate(data): recurse
ItemsLoop(items, item_schema, idx, path, acc) ==
  IF idx > Len(items) THEN acc
  ELSE ItemsLoop(items, item_schema, idx + 1, path,
         _validate_schema(items[idx], item_schema,
                          path \o "[" \o ToString(idx - 1) \o "]", acc))

\* _validate_schema(data, schema, path, errors), on the accumulator.  A
\* `required` that cannot be iterated and `properties` without items() raise.
_validate_schema(data, schema, path, acc) ==
  IF acc.raised \/ schema.k # "dict" THEN acc
  ELSE
    LET expected_type == DictGet(schema, "type", JNone)
        types_list == TypesList(expected_type)
        mismatch ==
          /\ Truthy(expected_type)
          /\ ~(Listed("null", types_list) /\ data = JNone)
          /\ ~(Listed("object", types_list) /\ data.k = "dict")
          /\ ~(Listed("array", types_list) /\ data.k = "list")
          /\ IF \/ Listed("string", types_list)
                \/ Listed("number", types_list)
                \/ Listed("integer", types_list)
             THEN ~_validate_type(data, types_list)
             ELSE data.k \notin {"dict", "list"}
    IN  IF mismatch
        THEN ErrAppend(acc, path \o ": expected " \o ListRepr(types_list)
                              \o ", got " \o data.k)
        ELSE IF data.k = "dict"
        THEN LET required == DictGet(schema, "required", EmptyList)
                 props == DictGet(schema, "properties", EmptyDict)
                 afterRequired ==
                   IF required.k = "list"
                   THEN RequiredLoop(data, required.xs, path, acc)
                   ELSE Raise(acc)
             IN  IF afterRequired.raised THEN afterRequired
                 ELSE IF props.k # "dict" THEN Raise(afterRequired)
                 ELSE PropsLoop(data, props, KeySeq(DOMAIN props.f), path,
                                afterRequired)
        ELSE IF data.k = "list"
        THEN LET item_schema == DictGet(schema, "items", JNone)
             IN  IF Truthy(item_schema)
                 THEN ItemsLoop(data.xs, item_schema, 1, path, acc)
                 ELSE acc
        ELSE acc

\* What a call of _validate_schema does: it returns `errors`, or raises.
Validated(acc) ==
  [outcome |-> IF acc.raised THEN "raise" ELSE "return",
   errors |-> IF acc.raised THEN None ELSE acc.errors]

\* ------------------------------------------- transform.py: transform_run
\* The contract transform_run works with: what json.loads made of the
\* contract file, or {} when the file is missing or is no JSON.
LoadContract(file) == IF file.state = "parsed" THEN file.value ELSE EmptyDict

\* What a call of transform_run does: it writes the cleaned document and
\* returns, after logging the validation errors, or it raises before the
\* write.
RunWrote(cleaned, errors) ==
  [outcome |-> "return", written |-> Some(cleaned), warnings |-> errors]
RunRaised == [outcome |-> "raise", written |-> None, warnings |-> <<>>]

\* transform_run(input_path): raw is what the input file holds, None when it
\* cannot be read or is no JSON; file is the state of the contract file.
transform_run(raw, file) ==
  IF IsNone(raw) THEN RunRaised
  ELSE
    LET contract == LoadContract(file)
        pairs == DictGet(Get(raw), "origin_dest_pairs", EmptyList)
        results == [i \in DOMAIN Entries(pairs) |->
                      _transform_record(Entries(pairs)[i])]
        cleaned ==
          JDict([run_timestamp_utc |->
                   DictGet(Get(raw), "run_timestamp_utc", JNone),
                 flights |-> JList([i \in DOMAIN results |-> results[i].value])])
        validation ==
          IF Truthy(contract)
          THEN _validate_schema(cleaned, contract, "root", Accumulator(Some(<<>>)))
          ELSE Accumulator(Some(<<>>))
    IN  IF Get(raw).k # "dict" \/ ~Iterable(pairs) THEN RunRaised
        ELSE IF \E i \in DOMAIN results : results[i].outcome = "raise"
        THEN RunRaised
        ELSE IF validation.raised THEN RunRaised
        ELSE RunWrote(cleaned, Get(validation.errors))

\* ------------------------------ from the engine's output to the normalizer
\* What json.loads gives for what json.dump wrote: null for None, a string,
\* an integer, a float.
LoadStr(o) == IF IsNone(o) THEN JNone ELSE JStr(Get(o))
LoadInt(o) == IF IsNone(o) THEN JNone ELSE JInt(Get(o))
LoadFloat(o) == IF IsNone(o) THEN JNone ELSE JFloat(Get(o))

LoadLeg(leg) ==
  JDict([leg_departure_datetime |-> LoadStr(leg.leg_departure_datetime),
         leg_arrival_datetime |-> LoadStr(leg.leg_arrival_datetime),
         leg_flight_number |-> LoadStr(leg.leg_flight_number),
         leg_distance |-> LoadInt(leg.leg_distance),
         leg_airplane |-> LoadStr(leg.leg_airplane),
         leg_class |-> LoadStr(leg.leg_class)])

\* One entry of origin_dest_pairs as transform_run reads it from the file
\* run() wrote.
LoadRecord(r) ==
  JDict([inputs_from |-> LoadStr(r.inputs_from),
         inputs_to |-> LoadStr(r.inputs_to),
         program |-> LoadStr(r.program),
         departure_date |-> LoadStr(r.departure_date),
         duration |-> LoadStr(r.duration),
         class |-> LoadStr(r.class),
         stops |-> LoadInt(r.stops),
         flight_number |-> LoadStr(r.flight_number),
         last_updated |-> LoadStr(r.last_updated),
         legs |-> JList([j \in 1..Len(r.legs) |-> LoadLeg(r.legs[j])]),
         pricing |->
           JDict([points_price_raw |-> LoadStr(r.pricing.points_price_raw),
                  points_amount |-> LoadInt(r.pricing.points_amount),
                  points_program_currency |->
                    LoadStr(r.pricing.points_program_currency),
                  cash_copay_raw |-> LoadStr(r.pricing.cash_copay_raw),
                  cash_copay_amount |-> LoadFloat(r.pricing.cash_copay_amount),
                  cash_copay_currency |-> LoadStr(r.pricing.cash_copay_currency),
                  cents_per_point |-> LoadFloat(r.pricing.cents_per_point),
                  total_value_usd |-> LoadFloat(r.pricing.total_value_usd)])])

\* ------------------------------------- transform.py: the stage on its files
\* A path, as Path gives its stem and its suffix.
PathOf(stem, suffix) == [stem |-> stem, suffix |-> suffix]

\* An output written over the input it was made from.
OutputPath_m(input_path) == input_path

\* The output_path transform_run takes when it is given none:
\* input_path.with_name(f"{input_path.stem}_transformed{input_path.suffix}").
OutputPath(input_path) ==
  PathOf(input_path.stem \o "_transformed", input_path.suffix)

\* The files after a transform_run(input_path) that ended as r: files gives
\* what each path holds, None when there is no such file.  A run that raises
\* writes nothing.
StageWrite(files, input_path, r) ==
  IF r.outcome = "raise" THEN files
  ELSE [files EXCEPT ![OutputPath(input_path)] = r.written]

\* ------------------------------------------------------ the page executor
\* What one page.evaluate call can do: return {ok, status, text}, with a text
\* that json.loads accepts or not, or raise (kind "throw").
Responses ==
  { [kind |-> "result", ok |-> TRUE,  status |-> 200, parses |-> TRUE],
    [kind |-> "result", ok |-> TRUE,  status |-> 200, parses |-> FALSE],
    [kind |-> "result", ok |-> FALSE, status |-> 429, parses |-> FALSE],
    [kind |-> "result", ok |-> FALSE, status |-> 500, parses |-> FALSE],
    [kind |-> "throw",  ok |-> FALSE, status |-> 0,   parses |-> FALSE] }

\* The message of the exception _page_fetch_json raises on a failed status.
FetchErrorText(url, status) ==
  <<"f","e","t","c","h"," ">> \o url
    \o <<" ","r","e","t","u","r","n","e","d"," ">> \o IntStr(status)

\* The message of json.loads on a body that is no JSON.
JsonErrorText == <<"E","x","p","e","c","t","i","n","g"," ","v","a","l","u","e">>

\* Whether _page_fetch_json sleeps and tries again after a failed status.
RetriesFetch(status, attempt, attempts) == status = 429 /\ attempt < attempts - 1

\* Mutant: a failed status that is not retried is not raised, and its body is
\* returned as if it were the result.
_page_fetch_json_m(resp, url, attempt, attempts) ==
  IF resp.kind = "throw" THEN [outcome |-> "raise", msg |-> TransportText]
  ELSE IF resp.ok
       THEN IF resp.parses THEN [outcome |-> "return", msg |-> EmptyStr]
            ELSE [outcome |-> "raise", msg |-> JsonErrorText]
       ELSE IF RetriesFetch(resp.status, attempt, attempts)
            THEN [outcome |-> "continue", msg |-> EmptyStr]
            ELSE [outcome |-> "return", msg |-> EmptyStr]

\* One iteration of the loop of _page_fetch_json on response resp: it returns
\* the parsed body, goes on to the next attempt, or raises msg.
_page_fetch_json(resp, url, attempt, attempts) ==
  IF resp.kind = "throw" THEN [outcome |-> "raise", msg |-> TransportText]
  ELSE IF resp.ok
       THEN IF resp.parses THEN [outcome |-> "return", msg |-> EmptyStr]
            ELSE [outcome |-> "raise", msg |-> JsonErrorText]
       ELSE IF RetriesFetch(resp.status, attempt, attempts)
            THEN [outcome |-> "continue", msg |-> EmptyStr]
            ELSE [outcome |-> "raise", msg |-> FetchErrorText(url, resp.status)]

\* The URL of _fetch_enrichment.
EnrichUrl(availability_id) == EnrichUrlPrefix \o availability_id

\* ------------------------------------------------------------------- state
\* The offers of a search result are drawn when the offer loop reaches them:
\* run() reads the length of the result when it arrives and each offer only in
\* its own iteration, so every behaviour of the code is one of the model.
\* A loop variable or local that the code does not read again before it
\* assigns it anew is put back to its first value when its loop is left.
VARIABLES
  pc,                 \* where run() is
  retries,            \* config.scraping_settings.retries
  max_offers,         \* config.scraping_settings.max_offers_per_route
  ri,                 \* the route of "for route in self.config.routes" (1-based)
  attempt,            \* the search attempt of run()
  fattempt,           \* the attempt of _page_fetch_json
  attempt_enrich,     \* the enrichment attempt of run()
  fetched,
  route_429_hits,
  skip_rest,
  nmeta,              \* len(metadata), after truncation
  metadata,           \* the offers of metadata the offer loop has reached
  added,
  origin_dest_pairs,  \* output_schema["origin_dest_pairs"]
  snapshots,          \* the documents written to output/run_<ts>.json, in order
  \* history of the run, read by the properties only
  prov,               \* for each record of origin_dest_pairs: where it comes from
  opCalls,            \* remote calls the search / enrichment operation under way has issued
  searchOk,           \* a search call of this route was answered with a parsable 2xx body
  routeEnriched,      \* an enrichment call has been issued for this route
  term429,            \* enrichment operations of this route whose last response was a 429
  offerLog,           \* how each offer of this route ended, in order
  returned,           \* len of the search result of this route, before truncation
  lastDetail,         \* the detail the last successful enrichment of this route returned
  offersSeen,         \* offers returned by the remote over the run
  searched,           \* the routes a search call has been issued for
  \* a call of one of the pure helpers (DataParser, _build_records, transform)
  fn,                 \* the function called, "" before the call
  arg,                \* its argument
  ret                 \* what it returned, or that it raised

vars == <<pc, retries, max_offers, ri, attempt, fattempt, attempt_enrich, fetched,
          route_429_hits, skip_rest, nmeta, metadata, added, origin_dest_pairs,
          snapshots, prov, opCalls, searchOk, routeEnriched, term429, offerLog,
          returned, lastDetail, offersSeen, searched, fn, arg, ret>>

config == <<retries, max_offers>>
routeLocals == <<fetched, route_429_hits, skip_rest, nmeta, metadata, added>>
output == <<origin_dest_pairs, prov>>
routeHistory == <<searchOk, routeEnriched, term429, offerLog, returned, lastDetail>>
call == <<fn, arg, ret>>

\* Where a record comes from: its route, its offer's place in the search
\* result, its trip's place in the detail (0 for a minimal record).
Tag(r, o, t, kind) == [route |-> r, offer |-> o, trip |-> t, kind |-> kind]

\* Mutant: the new records take the place of the list.
AppendAll_m2(pairs, records) == records

\* Mutant: the new records are put in front of the list.
AppendAll_m(pairs, records) == records \o pairs

\* list.append for each record of records, in order.
AppendAll(pairs, records) == pairs \o records

\* The offer "for meta in metadata" is at, and its position (1-based).
oi == Len(metadata)
Meta == metadata[oi]

\* __init__ and a configuration: retries and the cap are any allowed values.
Init ==
  /\ pc = "Idle"
  /\ retries \in 0..MaxRetries
  /\ max_offers \in 0..MaxCap
  /\ ri = 0
  /\ attempt = 0
  /\ fattempt = 0
  /\ attempt_enrich = 0
  /\ fetched = FALSE
  /\ route_429_hits = 0
  /\ skip_rest = FALSE
  /\ nmeta = 0
  /\ metadata = <<>>
  /\ added = 0
  /\ origin_dest_pairs = <<>>
  /\ snapshots = <<>>
  /\ prov = <<>>
  /\ opCalls = 0
  /\ searchOk = FALSE
  /\ routeEnriched = FALSE
  /\ term429 = 0
  /\ offerLog = <<>>
  /\ returned = 0
  /\ lastDetail = None
  /\ offersSeen = 0
  /\ searched = {}
  /\ fn = ""
  /\ arg = None
  /\ ret = None

\* ------------------------------------------- run(): setup and route loop
\* chromium.launch / new_context / new_page raises: run() raises, nothing is
\* written.  (A failed warm-up page.goto is caught and changes nothing.)
SetupFails ==
  /\ pc = "Idle"
  /\ pc' = "Aborted"
  /\ UNCHANGED <<call, config, ri, attempt, fattempt, attempt_enrich, routeLocals,
                 output, snapshots, opCalls, routeHistory, offersSeen, searched>>

\* Mutant: the search loop is entered only when retries is 2 or more.
EnterRoute_m(r) ==
  /\ ri' = r
  /\ IF r <= NumRoutes
     THEN /\ fetched' = FALSE
          /\ route_429_hits' = 0
          /\ skip_rest' = FALSE
          /\ pc' = IF 1 < retries THEN "SearchFetch" ELSE "Pause"
          /\ searchOk' = FALSE
          /\ routeEnriched' = FALSE
          /\ term429' = 0
          /\ offerLog' = <<>>
          /\ returned' = 0
          /\ lastDetail' = None
     ELSE /\ pc' = "Write"
          /\ UNCHANGED <<fetched, route_429_hits, skip_rest, routeHistory>>
  /\ UNCHANGED <<call, config, attempt, fattempt, attempt_enrich, nmeta, metadata,
                 added, output, snapshots, opCalls, offersSeen, searched>>

\* "for route in self.config.routes" goes to route r: the route begins and its
\* search loop "for attempt in range(retries)" makes its first call, if it has
\* one; after the last route the browser block is left.
EnterRoute(r) ==
  /\ ri' = r
  /\ IF r <= NumRoutes
     THEN /\ fetched' = FALSE
          /\ route_429_hits' = 0
          /\ skip_rest' = FALSE
          /\ pc' = IF 0 < retries THEN "SearchFetch" ELSE "Pause"
          /\ searchOk' = FALSE
          /\ routeEnriched' = FALSE
          /\ term429' = 0
          /\ offerLog' = <<>>
          /\ returned' = 0
          /\ lastDetail' = None
     ELSE /\ pc' = "Write"
          /\ UNCHANGED <<fetched, route_429_hits, skip_rest, routeHistory>>
  /\ UNCHANGED <<call, config, attempt, fattempt, attempt_enrich, nmeta, metadata,
                 added, output, snapshots, opCalls, offersSeen, searched>>

\* The browser, context and page are there: on to the first route.
SetupSucceeds ==
  /\ pc = "Idle"
  /\ EnterRoute(1)

\* Mutant: the result is never truncated.
TruncatedLen_m(n, cap) == n

\* len(metadata[:max_offers]) when max_offers > 0, len(metadata) otherwise
TruncatedLen(n, cap) == IF cap > 0 /\ n > cap THEN cap ELSE n

\* A search call returns a result of n offers: truncate it and start on its
\* offers.
SearchReturns ==
  /\ pc = "SearchFetch"
  /\ \E resp \in Responses :
       /\ _page_fetch_json(resp, SearchUrl, fattempt, retries).outcome = "return"
       /\ searchOk' = (resp.kind = "result" /\ resp.ok /\ resp.parses)
  /\ \E n \in 0..(MaxOffers - offersSeen) :
       /\ nmeta' = TruncatedLen(n, max_offers)
       /\ returned' = n
       /\ offersSeen' = offersSeen + n
  /\ searched' = searched \cup {ri}
  /\ metadata' = <<>>
  /\ fetched' = TRUE
  /\ added' = 0
  /\ pc' = "OfferLoop"
  /\ attempt' = 0
  /\ fattempt' = 0
  /\ opCalls' = 0
  /\ UNCHANGED <<call, config, ri, attempt_enrich, route_429_hits,
                 skip_rest, output, snapshots, routeEnriched, term429, offerLog,
                 lastDetail>>

\* A search call answers 429 before the last attempt of _page_fetch_json:
\* sleep and call again.
SearchRateLimited ==
  /\ pc = "SearchFetch"
  /\ \E resp \in Responses :
       _page_fetch_json(resp, SearchUrl, fattempt, retries).outcome = "continue"
  /\ opCalls' = opCalls + 1
  /\ fattempt' = fattempt + 1
  /\ searched' = searched \cup {ri}
  /\ UNCHANGED <<pc, call, config, ri, attempt, attempt_enrich, routeLocals, output,
                 snapshots, routeHistory, offersSeen>>

\* Mutant: the search loop does not count its attempts ("while True" for
\* "for attempt in range(retries)").
SearchRaises_m ==
  /\ pc = "SearchFetch"
  /\ \E resp \in Responses :
       _page_fetch_json(resp, SearchUrl, fattempt, retries).outcome = "raise"
  /\ fattempt' = 0
  /\ searched' = searched \cup {ri}
  /\ UNCHANGED <<pc, attempt, opCalls, call, config, ri, attempt_enrich,
                 routeLocals, output, snapshots, routeHistory, offersSeen>>

\* _fetch_search raises: the handler of run() logs, sleeps, and the search
\* loop makes its next attempt, or is over.
SearchRaises ==
  /\ pc = "SearchFetch"
  /\ \E resp \in Responses :
       _page_fetch_json(resp, SearchUrl, fattempt, retries).outcome = "raise"
  /\ fattempt' = 0
  /\ IF attempt + 1 < retries
     THEN /\ attempt' = attempt + 1
          /\ opCalls' = opCalls + 1
          /\ pc' = "SearchFetch"
     ELSE /\ attempt' = 0
          /\ opCalls' = 0
          /\ pc' = "Pause"
  /\ searched' = searched \cup {ri}
  /\ UNCHANGED <<call, config, ri, attempt_enrich, routeLocals, output,
                 snapshots, routeHistory, offersSeen>>

\* ------------------------------------------------------ run(): offer loop
\* Mutant: the route loop moves on as soon as the offers are done, before
\* the pause.
OffersDone_m ==
  /\ pc = "OfferLoop"
  /\ oi >= nmeta
  /\ pc' = "Pause"
  /\ ri' = ri + 1
  /\ nmeta' = 0
  /\ metadata' = <<>>
  /\ added' = 0
  /\ UNCHANGED <<call, config, attempt, fattempt, attempt_enrich, fetched,
                 route_429_hits, skip_rest, output, snapshots, opCalls,
                 routeHistory, offersSeen, searched>>

\* "for meta in metadata" is over: break out of the search loop.
OffersDone ==
  /\ pc = "OfferLoop"
  /\ oi >= nmeta
  /\ pc' = "Pause"
  /\ nmeta' = 0
  /\ metadata' = <<>>
  /\ added' = 0
  /\ UNCHANGED <<call, config, ri, attempt, fattempt, attempt_enrich, fetched,
                 route_429_hits, skip_rest, output, snapshots, opCalls,
                 routeHistory, offersSeen, searched>>

\* skip_rest is set: the next offer becomes a minimal record, with no call.
OfferDegraded ==
  /\ pc = "OfferLoop"
  /\ oi < nmeta
  /\ skip_rest
  /\ \E meta \in Offers :
       /\ metadata' = Append(metadata, meta)
       /\ origin_dest_pairs' =
            Append(origin_dest_pairs, _build_minimal_record(meta, TargetDate))
  /\ prov' = Append(prov, Tag(ri, oi + 1, 0, "minimal"))
  /\ added' = added + 1
  /\ offerLog' = Append(offerLog, "degraded")
  /\ UNCHANGED <<pc, call, config, ri, attempt, fattempt, attempt_enrich, fetched,
                 route_429_hits, skip_rest, nmeta, snapshots, opCalls, searchOk,
                 routeEnriched, term429, returned, lastDetail, offersSeen,
                 searched>>

\* The next offer's source matches no program of the route: on to the next.
OfferUnmatched ==
  /\ pc = "OfferLoop"
  /\ oi < nmeta
  /\ ~skip_rest
  /\ \E meta \in Offers :
       /\ ~_program_matches(meta.source, RoutePrograms(ri))
       /\ metadata' = Append(metadata, meta)
  /\ offerLog' = Append(offerLog, "unmatched")
  /\ UNCHANGED <<pc, call, config, ri, attempt, fattempt, attempt_enrich, fetched,
                 route_429_hits, skip_rest, nmeta, added, output, snapshots,
                 opCalls, searchOk, routeEnriched, term429, returned, lastDetail, offersSeen,
                 searched>>

\* The next offer matches: "for attempt_enrich in range(retries)" begins and
\* _fetch_enrichment is called.  (Here retries >= 1: a search has returned.)
OfferMatched ==
  /\ pc = "OfferLoop"
  /\ oi < nmeta
  /\ ~skip_rest
  /\ \E meta \in Offers :
       /\ _program_matches(meta.source, RoutePrograms(ri))
       /\ metadata' = Append(metadata, meta)
  /\ attempt_enrich' = 0
  /\ fattempt' = 0
  /\ opCalls' = 0
  /\ pc' = "EnrichFetch"
  /\ UNCHANGED <<call, config, ri, attempt, fetched, route_429_hits, skip_rest, nmeta,
                 added, output, snapshots, routeHistory, offersSeen, searched>>

\* An enrichment call returns a detail: append its records, sleep, break.
EnrichReturns ==
  /\ pc = "EnrichFetch"
  /\ \E resp \in Responses :
       _page_fetch_json(resp, EnrichUrl(Meta.id), fattempt, retries).outcome = "return"
  /\ \E detail \in Details :
       LET records == _build_records(Meta, detail)
       IN  /\ origin_dest_pairs' = AppendAll(origin_dest_pairs, records)
           /\ prov' = AppendAll(prov, [t \in 1..Len(records) |->
                                        Tag(ri, oi, t, "enriched")])
           /\ added' = added + Len(records)
           /\ lastDetail' = Some(detail)
  /\ routeEnriched' = TRUE
  /\ offerLog' = Append(offerLog, "enriched")
  /\ pc' = "OfferLoop"
  /\ attempt_enrich' = 0
  /\ fattempt' = 0
  /\ opCalls' = 0
  /\ UNCHANGED <<call, config, ri, attempt, fetched,
                 route_429_hits, skip_rest, nmeta, metadata, snapshots, searchOk,
                 term429, returned, offersSeen, searched>>

\* An enrichment call answers 429 before the last attempt of
\* _page_fetch_json: sleep and call again.
EnrichRateLimited ==
  /\ pc = "EnrichFetch"
  /\ \E resp \in Responses :
       _page_fetch_json(resp, EnrichUrl(Meta.id), fattempt, retries).outcome = "continue"
  /\ opCalls' = opCalls + 1
  /\ routeEnriched' = TRUE
  /\ fattempt' = fattempt + 1
  /\ UNCHANGED <<pc, call, config, ri, attempt, attempt_enrich, routeLocals, output,
                 snapshots, searchOk, term429, offerLog, returned, lastDetail,
                 offersSeen, searched>>

\* Mutant: the last attempt is taken to be number `retries`, which never comes.
IsLastEnrichAttempt_m(a, n) == a = n

\* Whether the handler of a failed enrichment acts (the last attempt).
IsLastEnrichAttempt(a, n) == a = n - 1

\* Whether the handler counts a failure as a rate limit: "429" in str(e).
LooksRateLimited(msg) == IsSubstr(RateLimitText, msg)

\* Mutant: the threshold test is off by one ("> 2" for ">= 2").
DegradeThreshold_m == 2 + 1

\* The number of counted failures at which the route switches to minimal records.
DegradeThreshold == 2

\* _fetch_enrichment raises: on the last attempt the handler counts a rate
\* limit, may set skip_rest, and appends the minimal record; then it sleeps,
\* and the enrichment loop makes its next attempt, or is over (the offer has
\* failed).
EnrichRaises ==
  /\ pc = "EnrichFetch"
  /\ \E resp \in Responses :
       LET r == _page_fetch_json(resp, EnrichUrl(Meta.id), fattempt, retries)
           last == IsLastEnrichAttempt(attempt_enrich, retries)
           hit == last /\ LooksRateLimited(r.msg)
           hits == IF hit THEN route_429_hits + 1 ELSE route_429_hits
           over == ~(attempt_enrich + 1 < retries)
       IN  /\ r.outcome = "raise"
           /\ route_429_hits' = hits
           /\ skip_rest' = IF hit /\ hits >= DegradeThreshold THEN TRUE ELSE skip_rest
           /\ term429' = IF over /\ resp.kind = "result" /\ resp.status = 429
                         THEN term429 + 1 ELSE term429
  /\ IF IsLastEnrichAttempt(attempt_enrich, retries)
     THEN /\ origin_dest_pairs' =
               Append(origin_dest_pairs, _build_minimal_record(Meta, TargetDate))
          /\ prov' = Append(prov, Tag(ri, oi, 0, "minimal"))
          /\ added' = added + 1
     ELSE UNCHANGED <<output, added>>
  /\ routeEnriched' = TRUE
  /\ fattempt' = 0
  /\ IF attempt_enrich + 1 < retries
     THEN /\ attempt_enrich' = attempt_enrich + 1
          /\ opCalls' = opCalls + 1
          /\ pc' = "EnrichFetch"
          /\ UNCHANGED offerLog
     ELSE /\ attempt_enrich' = 0
          /\ opCalls' = 0
          /\ pc' = "OfferLoop"
          /\ offerLog' = Append(offerLog, "failed")
  /\ UNCHANGED <<call, config, ri, attempt, fetched, nmeta, metadata, snapshots,
                 searchOk, returned, lastDetail, offersSeen, searched>>

\* ------------------------------------------------- run(): pause and finish
\* The pause after a route, whatever its outcome; then the next route.
Pause ==
  /\ pc = "Pause"
  /\ EnterRoute(ri + 1)

\* Mutant: the snapshot is written from a fresh output document, not the
\* one the route loop has filled.
Write_m ==
  /\ pc = "Write"
  /\ snapshots' = Append(snapshots, [run_timestamp_utc |-> RunTimestamp,
                                     origin_dest_pairs |-> <<>>])
  /\ pc' = "Finished"
  /\ UNCHANGED <<call, config, ri, attempt, fattempt, attempt_enrich, routeLocals,
                 output, opCalls, routeHistory, offersSeen, searched>>

\* json.dump(self.output_schema, f): the raw snapshot; then browser.close()
\* and return self.output_schema.
Write ==
  /\ pc = "Write"
  /\ snapshots' = Append(snapshots, [run_timestamp_utc |-> RunTimestamp,
                                     origin_dest_pairs |-> origin_dest_pairs])
  /\ pc' = "Finished"
  /\ UNCHANGED <<call, config, ri, attempt, fattempt, attempt_enrich, routeLocals,
                 output, opCalls, routeHistory, offersSeen, searched>>

Next ==
  \/ SetupFails \/ SetupSucceeds
  \/ SearchReturns \/ SearchRateLimited \/ SearchRaises
  \/ OffersDone \/ OfferDegraded \/ OfferUnmatched \/ OfferMatched
  \/ EnrichReturns \/ EnrichRateLimited \/ EnrichRaises
  \/ Pause \/ Write

Spec == Init /\ [][Next]_vars

\* run() is one sequential coroutine: every await of it (a page call, a
\* sleep) returns or raises, so a step that can be taken is taken.
FairSpec == Spec /\ WF_vars(Next)

\* ============================================ the pure helpers, called alone
\* Everything of the engine, which a call of a pure helper leaves alone.
engine == <<pc, config, ri, attempt, fattempt, attempt_enrich, routeLocals,
            output, snapshots, opCalls, routeHistory, offersSeen, searched>>

\* The characters raw price strings are made of: digits, the dot, the
\* thousands marker in both cases, letters, a space, the plus, two symbols.
Alphabet == {"1", "5", ".", "k", "K", "m", "A", " ", "+", "$", "€"}

\* Raw strings of the specification's and the tests' examples, and strings
\* whose first run of digits and dots is no number.
NamedStrings ==
  { <<"5","7",".","5","k"," ">> \o AAdvantage \o <<" ","m","i","l","e","s">>,
    <<"$","1","2","3">>, <<"€","5","0">>, <<"£","7",".","5","0">>,
    <<"¥","9","0","0">>, <<"$","1","2","3",".","4","5">>,
    <<"1",".","2",".","3">>, <<"7","5","K"," ","+"," ","$","5",".","6","0">>,
    <<"1","k"," ","m"," ","5">> }

Strings == UNION { [1..n -> Alphabet] : n \in 0..MaxStrLen } \cup NamedStrings

\* MileageCost and TotalTaxes of the trips _build_records is called on.
MileageCosts == {None, Some(0), Some(3), Some(7), Some(-4)}
TotalTaxesSet == {None, Some(0), Some(1), Some(5), Some(560), Some(-5)}

TripInputs ==
  { [TripCatalogue(1) EXCEPT !.MileageCost = m, !.TotalTaxes = x] :
      m \in MileageCosts, x \in TotalTaxesSet }
  \cup {TripCatalogue(1)}

\* A key a mapping does not have, while the mapping is being put together.
Absent == [JNone EXCEPT !.k = "absent"]
MkDict(f) == JDict([key \in {x \in DOMAIN f : f[x] # Absent} |-> f[key]])

FiveKM == <<"5", "k", " ", "m">>
Dollar5 == <<"$", "5">>
EUR == <<"E", "U", "R">>
NineH30 == <<"9", "h", " ", "3", "0", "m">>
JFK == <<"J", "F", "K">>

\* The points fields of the raw records the normalizer is called on.
PricingInputs ==
  { MkDict([points_price_raw |-> r, points_amount |-> a,
            points_program_currency |-> c]) :
      r \in {Absent, JNone, JStr(EmptyStr), JStr(FiveKM), JStr(<<"m">>),
             JStr(<<".">>), JInt(5)},
      a \in {Absent, JNone, JInt(0), JInt(75000), JFloat(Dec(-5, 0))},
      c \in {JNone, JStr(EmptyStr), JStr(AAdvantage)} }

\* The cash fields of the raw records.
CashInputs ==
  { MkDict([cash_copay_raw |-> r, cash_copay_amount |-> a,
            cash_copay_currency |-> c]) :
      r \in {Absent, JNone, JStr(EmptyStr), JStr(Dollar5), JStr(<<"€">>),
             JStr(<<".">>)},
      a \in {JNone, JInt(0), JFloat(Dec(56, 1))},
      c \in {JNone, JStr(EmptyStr), JStr(EUR)} }

PointsFew ==
  { MkDict([points_price_raw |-> JStr(FiveKM), points_amount |-> JNone,
            points_program_currency |-> JNone]),
    MkDict([points_price_raw |-> JStr(FiveKM), points_amount |-> JInt(75000),
            points_program_currency |-> JStr(AAdvantage)]),
    EmptyDict }
CashFew ==
  { MkDict([cash_copay_raw |-> JStr(Dollar5), cash_copay_amount |-> JNone,
            cash_copay_currency |-> JNone]),
    MkDict([cash_copay_raw |-> JStr(Dollar5), cash_copay_amount |-> JFloat(Dec(56, 1)),
            cash_copay_currency |-> JStr(EUR)]),
    EmptyDict }
ValueFields ==
  { EmptyDict,
    JDict([cents_per_point |-> JFloat(Dec(164, 1)),
           total_value_usd |-> JInt(123)]) }

\* The pricing of a raw record: a mapping, or something else, or no key.
PricingMaps ==
  { JDict(p.f @@ c.f @@ x.f) : p \in PricingInputs, c \in CashFew, x \in ValueFields }
  \cup { JDict(p.f @@ c.f @@ x.f) : p \in PointsFew, c \in CashInputs, x \in ValueFields }
NoPricings ==
  {Absent, JNone, JStr(EmptyStr), JStr(<<"n", "/", "a">>), EmptyList,
   JList(<<JInt(1)>>), JInt(0)}
PricingFew ==
  { EmptyDict,
    JDict([points_price_raw |-> JStr(FiveKM), cash_copay_raw |-> JStr(Dollar5)]),
    JDict([points_price_raw |-> JStr(FiveKM), points_amount |-> JInt(75000),
           points_program_currency |-> JStr(AAdvantage),
           cash_copay_raw |-> JStr(Dollar5), cash_copay_amount |-> JInt(5),
           cash_copay_currency |-> JStr(EUR),
           cents_per_point |-> JFloat(Dec(164, 1)), total_value_usd |-> JInt(123)]) }

Durations ==
  {Absent, JNone, JInt(570), JInt(0), JInt(59), JInt(60), JInt(-30), JInt(-60),
   JFloat(Dec(907, 1)), JFloat(Dec(-5, 1)), JBool(TRUE), JBool(FALSE),
   JStr(NineH30), JStr(EmptyStr), EmptyList}

FullLeg ==
  JDict([leg_departure_datetime |-> JStr(TargetDate),
         leg_arrival_datetime |-> JStr(TargetDate),
         leg_flight_number |-> JStr(<<"A", "1">>),
         leg_distance |-> JInt(2475),
         leg_airplane |-> JStr(<<"A">>),
         leg_class |-> JStr(<<"Y">>)])
LegsInputs ==
  {Absent, JNone, EmptyList, JList(<<FullLeg>>), JList(<<FullLeg, JInt(1)>>),
   JList(<<JNone, JDict([leg_distance |-> JInt(5), seat |-> JStr(<<"1">>)])>>),
   JInt(5), JStr(<<"a", "b">>)}

\* The pricing of the record of the tests.
PricingFew3 ==
  JDict([points_price_raw |-> JStr(FiveKM), points_amount |-> JInt(75000),
         points_program_currency |-> JStr(AAdvantage),
         cash_copay_raw |-> JStr(Dollar5), cash_copay_amount |-> JInt(5),
         cash_copay_currency |-> JStr(EUR),
         cents_per_point |-> JFloat(Dec(164, 1)), total_value_usd |-> JInt(123)])

\* A raw record with the copied fields of a record of the scraper.
RawRecord(pricing, duration, legs) ==
  MkDict([inputs_from |-> JStr(JFK), inputs_to |-> JStr(JFK),
          program |-> JStr(AAdvantage), departure_date |-> JStr(TargetDate),
          duration |-> duration, class |-> JStr(<<"Y">>), stops |-> JInt(0),
          flight_number |-> JStr(<<"A", "1">>), last_updated |-> JNone,
          legs |-> legs, pricing |-> pricing])

\* The raw records _transform_record is called on: mappings.
RawRecords ==
  { RawRecord(p, JStr(NineH30), JList(<<FullLeg>>)) : p \in PricingMaps \cup NoPricings }
  \cup { RawRecord(p, d, l) : p \in PricingFew, d \in Durations, l \in LegsInputs }
  \cup { EmptyDict, JDict([program |-> JStr(AAdvantage), seat |-> JInt(1)]) }

\* ---- the documents and schemas _validate_schema is called on
\* The most flights a document has.
MaxFlights == 2

\* A list of names, as json.loads reads it.
Names(ts) == JList([i \in DOMAIN ts |-> JName(ts[i])])

\* What the `type` of a schema node is: a name, or a list of names.
TypeValues ==
  { JName(t) : t \in {"string", "integer", "number", "object", "array",
                      "null", "boolean"} }
  \cup { Names(ts) :
           ts \in { <<"string", "null">>, <<"integer", "null">>,
                    <<"number", "null">>, <<"object", "null">>,
                    <<"array", "null">>, <<"object", "array">>,
                    <<"string", "object">>, <<"integer", "array">> } }

StringSchema == JDict([type |-> JName("string")])

\* Schema nodes: a type alone, a type with required, properties and items,
\* and nodes without a type.
NodeSchemas ==
  { JDict([type |-> t]) : t \in TypeValues }
  \cup { JDict([type |-> t, required |-> Names(<<"b">>),
                properties |-> JDict([a |-> StringSchema]),
                items |-> StringSchema]) : t \in TypeValues }
  \cup { JDict([required |-> Names(<<"b">>),
                properties |-> JDict([a |-> StringSchema])]),
         EmptyDict }

NodeValues ==
  { JNone, JBool(TRUE), JInt(3), JFloat(Dec(15, 1)), JStr(<<"A">>), EmptyList,
    JList(<<JInt(1), JStr(<<"A">>)>>), EmptyDict, JDict([a |-> JInt(1)]),
    JDict([a |-> JStr(<<"A">>), b |-> JNone]) }

\* Schemas that are no mapping, and mappings that are no schema.
NoSchemas == {JNone, JInt(0), JName("string"), JList(<<StringSchema>>)}
BadSchemas ==
  { JDict([required |-> JNone]),
    JDict([properties |-> JList(<<StringSchema>>)]) }

\* A contract of the shape of the data model: a run with its flights, a
\* flight with its legs and its pricing.
PricingSchema ==
  JDict([type |-> JName("object"),
         required |-> Names(<<"points_amount">>),
         properties |->
           JDict([points_amount |-> JDict([type |-> Names(<<"number", "null">>)]),
                  points_price_raw |-> JDict([type |-> Names(<<"string", "null">>)])])])
LegSchema ==
  JDict([type |-> JName("object"), required |-> Names(<<"leg_distance">>)])
FlightSchema ==
  JDict([type |-> JName("object"),
         required |-> Names(<<"program", "pricing">>),
         properties |->
           JDict([program |-> JDict([type |-> Names(<<"string", "null">>)]),
                  stops |-> JDict([type |-> Names(<<"integer", "null">>)]),
                  legs |-> JDict([type |-> JName("array"), items |-> LegSchema]),
                  pricing |-> PricingSchema])])
Contract ==
  JDict([type |-> JName("object"),
         required |-> Names(<<"run_timestamp_utc", "flights">>),
         properties |->
           JDict([run_timestamp_utc |-> StringSchema,
                  flights |-> JDict([type |-> JName("array"),
                                     items |-> FlightSchema])])])

\* A contract that asks for a string as the program of every flight.
StrictContract ==
  JDict([type |-> JName("object"),
         required |-> Names(<<"run_timestamp_utc", "flights">>),
         properties |->
           JDict([flights |->
                    JDict([type |-> JName("array"),
                           items |->
                             JDict([type |-> JName("object"),
                                    required |-> Names(<<"program", "airline">>),
                                    properties |->
                                      JDict([program |-> StringSchema])])])])])

GoodPricing ==
  JDict([points_amount |-> JInt(75000), points_price_raw |-> JStr(FiveKM)])
GoodFlight ==
  JDict([program |-> JStr(AAdvantage), stops |-> JInt(0),
         legs |-> JList(<<JDict([leg_distance |-> JInt(5)])>>),
         pricing |-> GoodPricing])

\* Flights: conforming ones (full, with nulls and keys left out, with a key
\* the contract does not know), and ones with one key missing or one value
\* of another type.
FlightDocs ==
  { GoodFlight,
    JDict([program |-> JNone, pricing |-> JDict([points_amount |-> JNone])]),
    JDict(GoodFlight.f @@ [seat |-> JInt(1)]),
    JDict([pricing |-> GoodPricing]),
    JDict([program |-> JStr(AAdvantage)]),
    JDict([program |-> JStr(AAdvantage),
           pricing |-> JDict([points_price_raw |-> JStr(FiveKM)])]),
    JDict([legs |-> JList(<<JDict([leg_class |-> JStr(<<"Y">>)])>>)] @@ GoodFlight.f),
    JDict([stops |-> JBool(TRUE)] @@ GoodFlight.f),
    JDict([stops |-> JFloat(Dec(15, 1))] @@ GoodFlight.f),
    JDict([program |-> JInt(1)] @@ GoodFlight.f),
    JDict([pricing |-> EmptyList] @@ GoodFlight.f) }

RunDoc(flights) ==
  JDict([run_timestamp_utc |-> JStr(RunTimestamp), flights |-> JList(flights)])

Documents ==
  { RunDoc(fs) : fs \in UNION { [1..n -> FlightDocs] : n \in 0..MaxFlights } }
  \cup { JDict([run_timestamp_utc |-> JStr(RunTimestamp)]),
         JDict([flights |-> EmptyList]),
         JDict([run_timestamp_utc |-> JInt(1), flights |-> EmptyList]) }

\* A call of _validate_schema: its data, its schema, and its errors
\* argument, None when the call leaves it to the default.
ValidateCalls ==
  { [kind |-> "validate", data |-> d, schema |-> sc, errors |-> e] :
      d \in NodeValues, sc \in NodeSchemas \cup NoSchemas \cup BadSchemas,
      e \in {None, Some(<<>>)} }
  \cup { [kind |-> "validate", data |-> d, schema |-> Contract, errors |-> e] :
           d \in Documents, e \in {None, Some(<<>>)} }

\* ---- the files transform_run is called on
\* Records of a raw snapshot: the one of the tests, one whose amounts are to
\* be derived, one with minutes for a duration, an empty one, one whose
\* pricing has keys the contract does not ask for only, and three that
\* _transform_record raises on.
SnapshotRecords ==
  { RawRecord(PricingFew3, JStr(NineH30), JList(<<FullLeg>>)),
    RawRecord(JDict([points_price_raw |-> JStr(FiveKM),
                     cash_copay_raw |-> JStr(Dollar5)]), JInt(570), EmptyList),
    EmptyDict,
    RawRecord(JDict([cash_copay_raw |-> JStr(<<".">>)]), JNone, EmptyList),
    RawRecord(JStr(<<"n", "/", "a">>), JNone, EmptyList),
    JInt(1) }

RawFiles ==
  { Some(JDict([run_timestamp_utc |-> JStr(RunTimestamp),
                origin_dest_pairs |-> JList(rs)])) :
      rs \in UNION { [1..n -> SnapshotRecords] : n \in 0..MaxFlights } }
  \cup { None,
         Some(JDict([run_timestamp_utc |-> JStr(RunTimestamp)])),
         Some(JDict([origin_dest_pairs |-> JList(<<EmptyDict>>)])),
         Some(JDict([run_timestamp_utc |-> JStr(RunTimestamp),
                     origin_dest_pairs |-> JNone])),
         Some(EmptyList) }

\* The contract file: missing, no JSON, or JSON: the contract, {}, a list,
\* a mapping that is no schema.
ContractFiles ==
  { [state |-> "missing", value |-> JNone],
    [state |-> "unparsable", value |-> JNone] }
  \cup { [state |-> "parsed", value |-> c] :
           c \in {Contract, StrictContract, EmptyDict, JList(<<JInt(1)>>),
                  JDict([required |-> JNone])} }

\* ---- the files the stage is run on, run after run
\* The most runs of the stage in one process.
MaxRuns == 3

RawA == PathOf("a", ".json")
RawB == PathOf("b", ".json")

\* The paths the stage is given, outputs of earlier runs among them, and
\* every path it writes.
StageInputs == {RawA, RawB, OutputPath(RawA)}
StagePaths == StageInputs \cup {OutputPath(q) : q \in StageInputs}

Snapshot(rs) ==
  Some(JDict([run_timestamp_utc |-> JStr(RunTimestamp),
              origin_dest_pairs |-> JList(rs)]))

\* What the directory holds before the first run: two raw snapshots.
StageFiles ==
  { [q \in StagePaths |-> IF q = RawA THEN a ELSE IF q = RawB THEN b ELSE None] :
      a \in { Snapshot(<<RawRecord(PricingFew3, JStr(NineH30), JList(<<FullLeg>>)),
                         RawRecord(JDict([points_price_raw |-> JStr(FiveKM),
                                          cash_copay_raw |-> JStr(Dollar5)]),
                                   JInt(570), EmptyList)>>),
              Snapshot(<<RawRecord(JDict([cash_copay_raw |-> JStr(<<".">>)]),
                                   JNone, EmptyList)>>),
              Snapshot(<<>>) },
      b \in { Snapshot(<<EmptyDict>>), Snapshot(<<>>) } }

StageContracts ==
  { [state |-> "missing", value |-> JNone],
    [state |-> "parsed", value |-> Contract],
    [state |-> "parsed", value |-> StrictContract] }

\* ---- the offers and details the engine builds records from
BareOffer ==
  [oa |-> None, da |-> None, source |-> None, date |-> None, stops |-> None,
   id |-> <<"b">>]

EngineOffers == Offers \cup {BareOffer}

EngineDetails ==
  Details
  \cup { [Detail(MaxTrips) EXCEPT !.departureDate = Some(TargetDate),
                                  !.originAirport = Some(JFK),
                                  !.lastUpdatedMinutes = Some(5)] }

FnArgs ==
  { [kind |-> "str", raw |-> r] : r \in {Some(x) : x \in Strings} \cup {None} }
  \cup { [kind |-> "trip", trip |-> t] : t \in TripInputs }
  \cup { [kind |-> "pricing", pricing |-> p] : p \in PricingInputs }
  \cup { [kind |-> "cash", pricing |-> p] : p \in CashInputs }
  \cup { [kind |-> "record", rec |-> r] : r \in RawRecords }
  \cup ValidateCalls
  \cup { [kind |-> "files", raw |-> r, contract |-> c] :
           r \in RawFiles, c \in ContractFiles }
  \cup { [kind |-> "offer", meta |-> m, detail |-> d] :
           m \in EngineOffers, d \in EngineDetails }
  \cup { [kind |-> "stage", files |-> f, contract |-> c] :
           f \in StageFiles, c \in StageContracts }

\* A scraper as __init__ leaves it, and an argument for a helper.
FnInit ==
  /\ pc = "Idle"
  /\ retries = 3
  /\ max_offers = 0
  /\ ri = 0
  /\ attempt = 0
  /\ fattempt = 0
  /\ attempt_enrich = 0
  /\ fetched = FALSE
  /\ route_429_hits = 0
  /\ skip_rest = FALSE
  /\ nmeta = 0
  /\ metadata = <<>>
  /\ added = 0
  /\ origin_dest_pairs = <<>>
  /\ snapshots = <<>>
  /\ prov = <<>>
  /\ opCalls = 0
  /\ searchOk = FALSE
  /\ routeEnriched = FALSE
  /\ term429 = 0
  /\ offerLog = <<>>
  /\ returned = 0
  /\ lastDetail = None
  /\ offersSeen = 0
  /\ searched = {}
  /\ fn = ""
  /\ arg \in FnArgs
  /\ ret = None

CallParsePoints ==
  /\ fn = ""
  /\ arg.kind = "str"
  /\ fn' = "parse_points_string"
  /\ ret' = parse_points_string(arg.raw)
  /\ UNCHANGED <<engine, arg>>

CallParseCash ==
  /\ fn = ""
  /\ arg.kind = "str"
  /\ fn' = "parse_cash_string"
  /\ ret' = parse_cash_string(arg.raw)
  /\ UNCHANGED <<engine, arg>>

\* _build_records on an offer and a detail of one trip.
CallBuildRecords ==
  /\ fn = ""
  /\ arg.kind = "trip"
  /\ fn' = "_build_records"
  /\ ret' = [outcome |-> "return",
             records |-> _build_records(Offer(Some(AmericanAAdvantage), <<"a","1">>),
                                        [Detail(0) EXCEPT !.trips = <<arg.trip>>])]
  /\ UNCHANGED <<engine, arg>>

CallNormalizePoints ==
  /\ fn = ""
  /\ arg.kind = "pricing"
  /\ fn' = "_normalize_points"
  /\ ret' = _normalize_points(arg.pricing)
  /\ UNCHANGED <<engine, arg>>

CallNormalizeCash ==
  /\ fn = ""
  /\ arg.kind = "cash"
  /\ fn' = "_normalize_cash"
  /\ ret' = _normalize_cash(arg.pricing)
  /\ UNCHANGED <<engine, arg>>

CallTransformRecord ==
  /\ fn = ""
  /\ arg.kind = "record"
  /\ fn' = "_transform_record"
  /\ ret' = _transform_record(arg.rec)
  /\ UNCHANGED <<engine, arg>>

\* The record a call returned is given to _transform_record again.
CallTransformAgain ==
  /\ fn = "_transform_record"
  /\ ret.outcome = "return"
  /\ fn' = "_transform_record again"
  /\ arg' = [kind |-> "record", rec |-> ret.value]
  /\ ret' = _transform_record(ret.value)
  /\ UNCHANGED engine

\* _validate_schema(data, schema) or _validate_schema(data, schema, "root", []).
CallValidateSchema ==
  /\ fn = ""
  /\ arg.kind = "validate"
  /\ fn' = "_validate_schema"
  /\ ret' = Validated(_validate_schema(arg.data, arg.schema, "root",
                                       Accumulator(arg.errors)))
  /\ UNCHANGED <<engine, arg>>

CallTransformRun ==
  /\ fn = ""
  /\ arg.kind = "files"
  /\ fn' = "transform_run"
  /\ ret' = transform_run(arg.raw, arg.contract)
  /\ UNCHANGED <<engine, arg>>

\* run() builds the records of an enriched offer.
CallBuildOfferRecords ==
  /\ fn = ""
  /\ arg.kind = "offer"
  /\ fn' = "run: _build_records"
  /\ ret' = [outcome |-> "return",
             records |-> _build_records(arg.meta, arg.detail)]
  /\ UNCHANGED <<engine, arg>>

\* run() builds the fallback record of an offer.
CallBuildMinimalRecord ==
  /\ fn = ""
  /\ arg.kind = "offer"
  /\ fn' = "run: _build_minimal_record"
  /\ ret' = [outcome |-> "return",
             records |-> <<_build_minimal_record(arg.meta, TargetDate)>>]
  /\ UNCHANGED <<engine, arg>>

\* transform_run's loop over the records the engine built and wrote.
CallTransformBuilt ==
  /\ fn \in {"_build_records", "run: _build_records",
              "run: _build_minimal_record"}
  /\ fn' = "_transform_record of built"
  /\ ret' = [outcome |-> "return",
             records |-> ret.records,
             builder |-> fn,
             transformed |->
               [i \in 1..Len(ret.records) |->
                  _transform_record(LoadRecord(ret.records[i]))]]
  /\ UNCHANGED <<engine, arg>>

\* What the process has done when a run of the stage is over: the files
\* as they are, the path of the run, whether it returned, the document each
\* input's first run wrote (None before it), and the number of runs on each
\* path and in all.
StageAfter(files, input_path, r, first, times, runs) ==
      [outcome |-> r.outcome,
       files |-> StageWrite(files, input_path, r),
       last |-> input_path,
       first |-> IF r.outcome = "return" /\ IsNone(first[input_path])
                 THEN [first EXCEPT ![input_path] = r.written]
                 ELSE first,
       times |-> [times EXCEPT ![input_path] = @ + 1],
       runs |-> runs]

\* The first transform_run of a process, on one of the paths.
CallStageRun ==
  /\ fn = ""
  /\ arg.kind = "stage"
  /\ fn' = "transform_run stage"
  /\ \E q \in StageInputs :
       \E r \in {transform_run(arg.files[q], arg.contract)} :
         ret' = StageAfter(arg.files, q, r,
                           [x \in StageInputs |-> None],
                           [x \in StageInputs |-> 0], 1)
  /\ UNCHANGED <<engine, arg>>

\* A further transform_run of the same process, on the files as they are.
CallStageRunAgain ==
  /\ fn = "transform_run stage"
  /\ ret.runs < MaxRuns
  /\ \E q \in StageInputs :
       \E r \in {transform_run(ret.files[q], arg.contract)} :
         ret' = StageAfter(ret.files, q, r, ret.first,
                           ret.times, ret.runs + 1)
  /\ UNCHANGED <<engine, arg, fn>>

FnNext ==
  \/ CallParsePoints \/ CallParseCash \/ CallBuildRecords \/ CallNormalizePoints
  \/ CallNormalizeCash \/ CallTransformRecord \/ CallTransformAgain
  \/ CallValidateSchema \/ CallTransformRun
  \/ CallStageRun \/ CallStageRunAgain
  \/ CallBuildOfferRecords \/ CallBuildMinimalRecord \/ CallTransformBuilt

FnSpec == FnInit /\ [][FnNext]_vars

\* ============================================================== properties
\* The places of origin_dest_pairs whose record comes from offer o of route r.
RecordsOf(r, o) ==
  { i \in DOMAIN prov : prov[i].route = r /\ prov[i].offer = o }

\* The route the history of the run is about: the route under way, or the
\* last one once the route loop is over.
LogRoute == IF ri > NumRoutes THEN NumRoutes ELSE ri

\* A remote call is about to be issued: every step from here issues one.
Calling == pc \in {"SearchFetch", "EnrichFetch"}

\* C1: once two enrichment operations of a route have ended in a 429 on their
\* last attempt, the route is in degraded mode; in degraded mode no remote call
\* is issued, and every remaining offer of the route is read and appends
\* exactly one record, the minimal record of that offer.
C1_DegradedAfterTwoRateLimits ==
  /\ [](term429 >= 2 => skip_rest)
  /\ [](skip_rest => ~Calling /\ opCalls = 0)
  /\ [][(skip_rest /\ pc = "OfferLoop" /\ oi < nmeta) =>
          /\ Len(metadata') = oi + 1
          /\ origin_dest_pairs' =
               Append(origin_dest_pairs,
                      _build_minimal_record(metadata'[oi + 1], TargetDate))
          /\ prov'[Len(prov')] = Tag(ri, oi + 1, 0, "minimal")
          /\ pc' = "OfferLoop" /\ skip_rest' /\ ri' = ri]_vars

\* C1 witness: retries is 3, the first two offers of a route failed on a 429
\* and the third became a minimal record in degraded mode.
C1_Witness ==
  /\ retries = 3
  /\ term429 = 2
  /\ skip_rest
  /\ offerLog = <<"failed", "failed", "degraded">>
  /\ Len(origin_dest_pairs) = 3
  /\ \A i \in 1..3 : prov[i].kind = "minimal" /\ prov[i].offer = i

\* C2: a search operation of a route, or an enrichment operation of an offer,
\* issues at most `retries` remote calls: when a call is about to be issued,
\* fewer than `retries` have been issued by the operation.
C2_CallsAtMostRetries == Calling => opCalls + 1 <= retries

\* C3: when the last enrichment attempt of an offer fails, exactly one record
\* is appended for the offer, the minimal record of the offer, run() goes on
\* with the offer loop of the same route, and run() does not raise.
C3_FailedOfferGetsOneFallback ==
  /\ [](\A o \in 1..Len(offerLog) :
          offerLog[o] = "failed" =>
            /\ Cardinality(RecordsOf(LogRoute, o)) = 1
            /\ \A i \in RecordsOf(LogRoute, o) :
                 /\ prov[i].kind = "minimal"
                 /\ o <= Len(metadata) =>
                      origin_dest_pairs[i] =
                        _build_minimal_record(metadata[o], TargetDate))
  /\ [](pc = "Aborted" => ri = 0)
  /\ [][(Len(offerLog') = Len(offerLog) + 1 /\ offerLog'[Len(offerLog')] = "failed") =>
          /\ pc' = "OfferLoop"
          /\ ri' = ri /\ metadata' = metadata /\ nmeta' = nmeta
          /\ Len(origin_dest_pairs') = Len(origin_dest_pairs) + 1]_vars

\* C3 witness: an offer failed with retries >= 1, its one minimal record is
\* there, and the loop has gone on to enrich the next offer.
C3_Witness ==
  /\ retries >= 1
  /\ offerLog = <<"failed", "enriched">>
  /\ Len(origin_dest_pairs) = 3
  /\ prov[1].kind = "minimal"

\* C4: the route's rate-limit counter counts exactly the enrichment operations
\* of the route whose last response had status 429.
C4_CounterCountsStatus429 == route_429_hits = term429

PricingFields ==
  {"points_price_raw", "points_amount", "points_program_currency",
   "cash_copay_raw", "cash_copay_amount", "cash_copay_currency",
   "cents_per_point", "total_value_usd"}

C6_CounterAndFlagPerRoute ==
  /\ (pc = "SearchFetch" => route_429_hits = 0 /\ ~skip_rest)
  /\ (skip_rest => term429 >= 2)

\* The places of origin_dest_pairs whose record comes from route r.
RecordsOfRoute(r) == { i \in DOMAIN prov : prov[i].route = r }

\* C7: a route none of whose search calls was answered with a result has no
\* record in origin_dest_pairs and no enrichment call; run() does not raise,
\* and after the pause the next route begins afresh.
C7_FailedSearchSkipsRoute ==
  /\ []((ri \in 1..NumRoutes /\ ~searchOk) =>
          /\ RecordsOfRoute(ri) = {}
          /\ ~routeEnriched
          /\ pc \in {"SearchFetch", "Pause"})
  /\ [](pc = "Aborted" => ri = 0 /\ origin_dest_pairs = <<>>)
  /\ [][(pc = "Pause" /\ ~searchOk /\ ri < NumRoutes) =>
          /\ ri' = ri + 1
          /\ pc' = (IF retries > 0 THEN "SearchFetch" ELSE "Pause")
          /\ route_429_hits' = 0 /\ ~skip_rest' /\ attempt' = 0 /\ fattempt' = 0
          /\ origin_dest_pairs' = origin_dest_pairs]_vars

\* C7 witness: every search attempt of route 2 has failed, after route 1 has
\* given records.
C7_Witness ==
  /\ retries >= 2
  /\ pc = "Pause"
  /\ ri = 2
  /\ ~searchOk
  /\ RecordsOfRoute(1) # {}

\* (route, offer, trip) of a is before that of b, lexicographically.
TagBefore(a, b) ==
  \/ a.route < b.route
  \/ a.route = b.route /\ a.offer < b.offer
  \/ a.route = b.route /\ a.offer = b.offer /\ a.trip < b.trip

\* C8: the records of origin_dest_pairs are in the order of (route, offer,
\* trip): of two records, the one that comes first has the smaller triple.
C8_RecordsInSourceOrder ==
  \A i, j \in DOMAIN prov : i < j => TagBefore(prov[i], prov[j])

\* C8 witness: records of two routes, one offer with two trips.
C8_Witness ==
  /\ RecordsOfRoute(1) # {}
  /\ RecordsOfRoute(2) # {}
  /\ \E i \in DOMAIN prov : prov[i].trip = 2
  /\ \E i \in DOMAIN prov : prov[i].route = 1 /\ prov[i].offer = 2

\* The test C9 states: some configured program is in the source, or the
\* source in it, both in lower case.
SubstringMatch(source, programs) ==
  LET src == IF IsNone(source) THEN EmptyStr ELSE Get(source)
  IN  \E k \in DOMAIN programs :
        \/ IsSubstr(Lower(programs[k]), Lower(src))
        \/ IsSubstr(Lower(src), Lower(programs[k]))

\* C9: _program_matches is the two-way, case-blind substring test: for every
\* offer the loop has read outside degraded mode, it was passed over exactly
\* when the test fails; an enrichment call is issued only for an offer that
\* passes the test; "American AAdvantage" matches ["AAdvantage"] and
\* "Delta SkyMiles" does not.
C9_ProgramMatchIsSubstringTest ==
  /\ \A o \in 1..Len(metadata) :
       o <= Len(offerLog) /\ offerLog[o] # "degraded" =>
         (offerLog[o] = "unmatched" <=>
            ~SubstringMatch(metadata[o].source, RoutePrograms(ri)))
  /\ pc = "EnrichFetch" => SubstringMatch(Meta.source, RoutePrograms(ri))
  /\ _program_matches(Some(AmericanAAdvantage), <<AAdvantage>>)
  /\ ~_program_matches(Some(DeltaSkyMiles), <<AAdvantage>>)

\* C9 witness: in one route an offer was passed over and the next is being
\* enriched, its source holding a program in another case.
C9_Witness ==
  /\ pc = "EnrichFetch"
  /\ ri = 2
  /\ offerLog = <<"unmatched">>
  /\ Meta.source = Some(DeltaSkyMiles)

\* C10: the raw snapshot is written once, after the last route, with all of
\* origin_dest_pairs; nothing is written before; and every run whose setup
\* succeeded comes to the write, whatever the remote calls answer.
C10_SnapshotOnceAtTheEnd ==
  /\ [](Len(snapshots) <= 1)
  /\ [](pc # "Finished" => snapshots = <<>>)
  /\ [](pc = "Finished" =>
         /\ snapshots = <<[run_timestamp_utc |-> RunTimestamp,
                           origin_dest_pairs |-> origin_dest_pairs]>>
         /\ ri = NumRoutes + 1)
  /\ [](pc = "Aborted" => ri = 0 /\ snapshots = <<>>)
  /\ [][snapshots' # snapshots => pc = "Write" /\ ri = NumRoutes + 1]_vars
  /\ (ri >= 1 ~> pc = "Finished")

\* C10 witness: the run is over, every search of it failed, and the snapshot
\* is there, empty.
C10_Witness ==
  /\ pc = "Finished"
  /\ retries >= 1
  /\ Len(snapshots) = 1
  /\ snapshots[1].origin_dest_pairs = <<>>
  /\ ~searchOk

\* The number of offers of this route's result that are to be processed: the
\* first max_offers of them under a cap, all of them without.
ToProcess ==
  IF max_offers > 0 /\ returned > max_offers THEN max_offers ELSE returned

\* C11: with max_offers_per_route = N > 0 the offer loop goes over the first N
\* offers of the result only, matching or not, so no offer after the N-th is
\* enriched or recorded; with 0 it goes over every offer of the result.
C11_OnlyFirstNOffersProcessed ==
  /\ [](pc \in {"OfferLoop", "EnrichFetch"} =>
         /\ nmeta = ToProcess
         /\ Len(metadata) <= ToProcess)
  /\ [](Len(offerLog) <= ToProcess)
  /\ [](max_offers > 0 =>
         \A i \in DOMAIN prov : prov[i].offer <= max_offers)
  /\ [][(pc = "OfferLoop" /\ pc' = "Pause") =>
          /\ Len(offerLog) = ToProcess
          /\ max_offers = 0 => Len(offerLog) = returned]_vars

\* C11 witness: under a cap of one a result of two offers or more has been
\* gone over, and one offer of it was processed.
C11_Witness ==
  /\ max_offers = 1
  /\ returned >= 2
  /\ pc = "Pause"
  /\ Len(offerLog) = 1
  /\ RecordsOfRoute(ri) # {}

\* The step ends the offer under way as enriched.
EnrichedStep ==
  /\ Len(offerLog') = Len(offerLog) + 1
  /\ offerLog'[Len(offerLog')] = "enriched"

\* C12: the step on which an enrichment succeeds appends, after what was
\* there, one record per trip of the detail returned, in trip order, each
\* with one leg per segment of its trip, in segment order; and an offer that
\* was enriched has no minimal record.
C12_OneRecordPerTripInOrder ==
  /\ [][EnrichedStep =>
          LET trips == Get(lastDetail').trips
              base == Len(origin_dest_pairs)
          IN  /\ Len(origin_dest_pairs') = base + Len(trips)
              /\ SubSeq(origin_dest_pairs', 1, base) = origin_dest_pairs
              /\ \A t \in 1..Len(trips) :
                   LET rec == origin_dest_pairs'[base + t]
                       segs == trips[t].AvailabilitySegments
                   IN  /\ prov'[base + t] = Tag(ri, oi, t, "enriched")
                       /\ rec.class = trips[t].Cabin
                       /\ rec.stops = trips[t].Stops
                       /\ rec.pricing.points_amount = trips[t].MileageCost
                       /\ Len(rec.legs) = Len(segs)
                       /\ \A j \in 1..Len(segs) :
                            /\ rec.legs[j].leg_flight_number = segs[j].FlightNumber
                            /\ rec.legs[j].leg_departure_datetime = segs[j].DepartsAt
                            /\ rec.legs[j].leg_class = segs[j].Cabin]_vars
  /\ [](\A o \in 1..Len(offerLog) :
          offerLog[o] = "enriched" =>
            \A i \in RecordsOf(LogRoute, o) : prov[i].kind = "enriched")

\* C12 witness: a detail of two trips, the second of two segments, has just
\* been made into two records.
C12_Witness ==
  /\ offerLog # <<>>
  /\ offerLog[Len(offerLog)] = "enriched"
  /\ ~IsNone(lastDetail)
  /\ Len(Get(lastDetail).trips) = 2
  /\ Cardinality(RecordsOf(LogRoute, Len(offerLog))) = 2
  /\ Len(origin_dest_pairs[Len(origin_dest_pairs)].legs) = 2

\* C13: origin_dest_pairs is empty when run() starts; every step leaves what
\* is in it as it is and in place, and only a step of the offer loop of a
\* route (a degraded offer, a successful or a failed enrichment) adds to it.
C13_OutputAppendOnly ==
  /\ [](pc = "Idle" => origin_dest_pairs = <<>>)
  /\ [][/\ Len(origin_dest_pairs') >= Len(origin_dest_pairs)
        /\ SubSeq(origin_dest_pairs', 1, Len(origin_dest_pairs)) = origin_dest_pairs
        /\ origin_dest_pairs' # origin_dest_pairs =>
             /\ pc \in {"OfferLoop", "EnrichFetch"}
             /\ ri \in 1..NumRoutes /\ ri' = ri]_vars

\* C13 witness: the run is over and both routes have added records, the
\* second after the first.
C13_Witness ==
  /\ pc = "Finished"
  /\ Len(origin_dest_pairs) >= 3
  /\ prov[1].route = 1
  /\ prov[Len(prov)].route = 2

\* C14: run() is at one place at a time, and each remote call is one awaited
\* step of it, so no two calls overlap.  A call is issued only for the route
\* under way; the route under way changes only by one, at the end of the
\* pause of the route before (or at setup, for the first); an offer is read
\* only when every offer before it has ended, and an enrichment call is for
\* the one offer that has not.
C14_RoutesAndOffersOneAtATime ==
  /\ [](Calling => ri \in 1..NumRoutes)
  /\ [](pc = "SearchFetch" => metadata = <<>> /\ offerLog = <<>>)
  /\ [](pc = "EnrichFetch" => Len(offerLog) = oi - 1)
  /\ [](pc = "Pause" => opCalls = 0 /\ metadata = <<>>)
  /\ [][ri' # ri => /\ ri' = ri + 1
                    /\ pc \in {"Idle", "Pause"}
                    /\ pc = "Idle" <=> ri = 0]_vars
  /\ [][Len(metadata') > Len(metadata) =>
          /\ Len(metadata') = Len(metadata) + 1
          /\ pc = "OfferLoop"
          /\ Len(offerLog) = Len(metadata)
          /\ ri' = ri]_vars
  /\ [][opCalls' > opCalls => opCalls' = opCalls + 1 /\ Calling /\ pc' = pc
                              /\ ri' = ri /\ metadata' = metadata]_vars

\* C14 witness: the enrichment call of the second offer of the second route
\* is about to be issued, the first route having given its records.
C14_Witness ==
  /\ pc = "EnrichFetch"
  /\ ri = 2
  /\ oi = 2
  /\ RecordsOfRoute(1) # {}

\* C15: with retries = 0 no search call and no enrichment call is issued, no
\* record is added, and the run goes on to write a snapshot with no record;
\* with retries >= 1 a search call is issued for every route: for every route
\* before the one under way, for the one under way once its search is over,
\* and so for all of them when the run has finished.
C15_ZeroRetriesNoCalls ==
  /\ [](retries = 0 =>
         /\ ~Calling /\ opCalls = 0
         /\ searched = {} /\ ~routeEnriched
         /\ origin_dest_pairs = <<>>)
  /\ []((retries = 0 /\ pc = "Finished") =>
         snapshots = <<[run_timestamp_utc |-> RunTimestamp,
                        origin_dest_pairs |-> <<>>]>>)
  /\ ((retries = 0 /\ ri >= 1) ~> pc = "Finished")
  /\ [](retries >= 1 =>
         \A r \in 1..NumRoutes :
           (r < ri \/ (r = ri /\ pc # "SearchFetch")) => r \in searched)
  /\ []((retries >= 1 /\ pc = "Finished") => searched = 1..NumRoutes)
  /\ [][(retries >= 1 /\ ri' # ri /\ ri' <= NumRoutes) =>
          pc' = "SearchFetch" /\ opCalls' = 0]_vars

\* C15 witness: a run with retries = 0 has finished: no route was searched
\* and the snapshot written has no record.
C15_Witness ==
  /\ retries = 0
  /\ pc = "Finished"
  /\ ri = NumRoutes + 1
  /\ searched = {}
  /\ Len(snapshots) = 1
  /\ snapshots[1].origin_dest_pairs = <<>>

\* q / 10^4 is num / den rounded to 4 decimals: no multiple of 1/10^4 is
\* nearer to num / den, and of two that are as near q is the even one.
IsRounded4(q, num, den) ==
  LET err == Abs(q * den - num * 10000)
  IN  /\ 2 * err <= Abs(den)
      /\ 2 * err = Abs(den) => q % 2 = 0

\* C16: in the record _build_records makes of a trip, cents_per_point is null
\* exactly when MileageCost is null or zero or TotalTaxes is null, and is
\* otherwise taxes / mileage_cost * 100 rounded to 4 decimals;
\* cash_copay_amount is taxes / 100 when taxes is not null; 75000 and 12300
\* give 123.0 and 16.4.
C16_CentsPerPointAndCashAmount ==
  fn = "_build_records" =>
    LET mc == arg.trip.MileageCost
        tx == arg.trip.TotalTaxes
        cpp == ret.records[1].pricing.cents_per_point
        cash == ret.records[1].pricing.cash_copay_amount
    IN  /\ Len(ret.records) = 1
        /\ IsNone(cpp) <=> (IsNone(mc) \/ IsNone(tx) \/ mc = Some(0))
        /\ (~IsNone(cpp) /\ Abs(Get(tx)) <= 1000) =>
             /\ Get(cpp).places = 4
             /\ IsRounded4(Get(cpp).scaled, Get(tx) * 100, Get(mc))
        /\ IsNone(cash) <=> IsNone(tx)
        /\ ~IsNone(tx) => Get(cash) = Dec(Get(tx), 2)
        /\ (mc = Some(75000) /\ tx = Some(12300)) =>
             /\ Normal(Get(cpp)) = Dec(164, 1)
             /\ Normal(Get(cash)) = Dec(123, 0)

\* C16 witness: the record of the trip of 75000 points and 12300 minor units
\* of taxes.
C16_Witness ==
  /\ fn = "_build_records"
  /\ arg.trip.MileageCost = Some(75000)
  /\ arg.trip.TotalTaxes = Some(12300)
  /\ ret.records[1].pricing.cents_per_point = Some(Dec(164000, 4))

\* C17: pricing.points_amount is null or a number that is not negative, in
\* every record _build_records makes and in every pricing the normalizer
\* returns.
C17_PointsAmountNonNegative ==
  /\ fn = "_build_records" =>
       \A t \in DOMAIN ret.records :
         LET a == ret.records[t].pricing.points_amount
         IN  IsNone(a) \/ Get(a) >= 0
  /\ (fn = "_normalize_points" /\ ret.outcome = "return") =>
       LET a == ret.pricing.f.points_amount
       IN  \/ a = JNone
           \/ a.k = "int" /\ a.n >= 0
           \/ a.k = "float" /\ a.d.scaled >= 0

\* C18: parse_cash_string returns a pair for every input string, and the pair
\* (0.0, "USD") for every string that holds no digit and no dot.
C18_ParseCashNeverRaises ==
  (fn = "parse_cash_string" /\ ~IsNone(arg.raw)) =>
    /\ ret.outcome = "return"
    /\ TokenStart(Get(arg.raw)) = 0 =>
         ret = Returned(Some(Dec(0, 0)), Some(<<"U","S","D">>))

\* The string s (in lower case) without its first run of digits and dots and
\* the marker "k" right after it.
WithoutFirstToken(s) ==
  LET b == TokenStart(s)
      e == TokenEnd(s, b)
      after == IF HasKMarker(s) THEN e + 2 ELSE e + 1
  IN  SubSeq(s, 1, b - 1) \o SubSeq(s, after, Len(s))

\* C19: parse_points_string returns (null, null) for a null or empty input
\* and for an input with no run of digits and dots; for any other input it
\* returns the value of the first such run, times 1000 exactly when a "k" or
\* "K" comes right after it, and as label the rest of the string, without
\* that run and marker and without "+", trimmed and in title case.
C19_ParsePointsAmountAndLabel ==
  fn = "parse_points_string" =>
    IF IsNone(arg.raw) \/ arg.raw = Some(EmptyStr) THEN ret = Returned(None, None)
    ELSE LET low == Lower(Get(arg.raw))
         IN  IF TokenStart(low) = 0 THEN ret = Returned(None, None)
             ELSE /\ ret.outcome = "return"
                  /\ FloatAccepts(FirstToken(low)) =>
                       ret.amount =
                         Some(IF HasKMarker(low)
                              THEN Times1000(FloatOf(FirstToken(low)))
                              ELSE FloatOf(FirstToken(low)))
                  /\ ret.currency =
                       Some(Title(Strip(Without(WithoutFirstToken(low), "+"))))

\* The codes of the known symbols that are in raw.
CodesIn(raw) ==
  { CurrencyCodes[i] : i \in { j \in 1..Len(CurrencySymbols) :
                                 IsSubstr(<<CurrencySymbols[j]>>, raw) } }

\* C20: for a non-empty input parse_cash_string returns the value of the
\* first run of digits and dots as amount, when there is one, and as currency
\* the code of a known symbol that is in the string, "USD" when none is.
C20_ParseCashAmountAndCurrency ==
  (fn = "parse_cash_string" /\ ~IsNone(arg.raw) /\ arg.raw # Some(EmptyStr)) =>
    LET raw == Get(arg.raw)
    IN  /\ ret.outcome = "return"
        /\ (TokenStart(raw) # 0 /\ FloatAccepts(FirstToken(raw))) =>
             ret.amount = Some(FloatOf(FirstToken(raw)))
        /\ ~IsNone(ret.currency)
        /\ IF CodesIn(raw) = {} THEN ret.currency = Some(<<"U","S","D">>)
           ELSE Get(ret.currency) \in CodesIn(raw)

\* C21: a record that _transform_record returned comes back unchanged from a
\* second call of _transform_record, which returns too.
C21_TransformIdempotent ==
  fn = "_transform_record again" => ret = RecReturned(arg.rec)

\* The second call was made on a record whose amounts the first call derived
\* from the raw strings and whose duration it made of a boolean.
C21_Witness ==
  /\ fn = "_transform_record again"
  /\ ret.outcome = "return"
  /\ ret.value.f.pricing.f.points_amount = JFloat(Dec(5000, 0))
  /\ ret.value.f.pricing.f.cash_copay_amount = JFloat(Dec(5, 0))
  /\ ret.value.f.duration = JStr(<<"0", "h", " ", "1", "m">>)

\* What the claim C22 asks of one normalizer: in is the pricing it was called
\* on, out the mapping it returned, and raw, amount, curr the three keys.
KeepsPresent(in, out, raw, amount, curr) ==
  LET rawIn == DictGet(in, raw, JNone)
      amountIn == DictGet(in, amount, JNone)
      currIn == DictGet(in, curr, JNone)
  IN  /\ amountIn # JNone => out.f[amount] = amountIn
      /\ currIn # JNone => out.f[curr] = currIn
      /\ out.f[raw] = rawIn
      /\ (out.f[amount] # amountIn \/ out.f[curr] # currIn) =>
           (amountIn = JNone /\ rawIn.k = "str" /\ Len(rawIn.s) > 0)

\* C22: a points_amount, points_program_currency, cash_copay_amount or
\* cash_copay_currency that is not null in the pricing given to a normalizer
\* is the same in what it returns; a value differs from the input only when
\* the amount was null and the raw string is not empty; the raw strings are
\* copied.
C22_PresentValuesKept ==
  /\ (fn = "_normalize_points" /\ ret.outcome = "return") =>
       KeepsPresent(arg.pricing, ret.pricing, "points_price_raw",
                    "points_amount", "points_program_currency")
  /\ (fn = "_normalize_cash" /\ ret.outcome = "return") =>
       KeepsPresent(arg.pricing, ret.pricing, "cash_copay_raw",
                    "cash_copay_amount", "cash_copay_currency")

\* C23: on every raw record that is a mapping, _transform_record returns, and
\* the record it returns has every canonical field, its pricing every pricing
\* field and each of its legs every leg field.
C23_TransformReturnsFullRecord ==
  fn = "_transform_record" =>
    /\ ret.outcome = "return"
    /\ DOMAIN ret.value.f = CanonicalFields
    /\ DOMAIN ret.value.f.pricing.f = PricingFields8
    /\ \A i \in DOMAIN ret.value.f.legs.xs :
         DOMAIN ret.value.f.legs.xs[i].f = LegFields

\* The duration _transform_record was called with, and the one it returned.
DurationIn == DictGet(arg.rec, "duration", JNone)
DurationOut == ret.value.f.duration

Kind(x) ==
  CASE x.k = "NoneType" -> "null"
    [] x.k = "bool" -> "boolean"
    [] x.k = "int" -> "integer"
    [] x.k = "float" -> "number"
    [] x.k = "str" -> "string"
    [] x.k = "list" -> "array"
    [] x.k = "dict" -> "object"

\* The value's kind is one of the listed types; an integer is a number too.
HasListedType(x, types_list) ==
  \/ Listed(Kind(x), types_list)
  \/ Kind(x) = "integer" /\ Listed("number", types_list)

SchemaType(schema) == DictGet(schema, "type", JNone)
SchemaRequired(schema) == DictGet(schema, "required", EmptyList)
SchemaProps(schema) == DictGet(schema, "properties", EmptyDict)
SchemaItems(schema) == DictGet(schema, "items", JNone)

\* A schema whose required is a list and whose properties is a mapping.
WellFormed(schema) ==
  /\ schema.k = "dict"
  /\ SchemaRequired(schema).k = "list"
  /\ SchemaProps(schema).k = "dict"

RECURSIVE Conforms(_, _, _)
\* data conforms to schema: every typed node has one of its listed types,
\* every present declared property and every element conforms, and, when
\* withRequired, every required key is present.
Conforms(data, schema, withRequired) ==
  schema.k = "dict" =>
    /\ Truthy(SchemaType(schema)) =>
         HasListedType(data, TypesList(SchemaType(schema)))
    /\ data.k = "dict" =>
         /\ withRequired =>
              \A i \in DOMAIN SchemaRequired(schema).xs :
                SchemaRequired(schema).xs[i].name \in DOMAIN data.f
         /\ \A key \in DOMAIN SchemaProps(schema).f \cap DOMAIN data.f :
              Conforms(data.f[key], SchemaProps(schema).f[key], withRequired)
    /\ (data.k = "list" /\ Truthy(SchemaItems(schema))) =>
         \A i \in DOMAIN data.xs :
           Conforms(data.xs[i], SchemaItems(schema), withRequired)

RECURSIVE Lacks(_, _, _)
\* The pairs of the path of an object of data and a key that the object's
\* schema requires and the object does not have.
Lacks(data, schema, path) ==
  IF schema.k # "dict" THEN {}
  ELSE IF data.k = "dict"
  THEN { <<path, SchemaRequired(schema).xs[i].name>> :
           i \in { j \in DOMAIN SchemaRequired(schema).xs :
                     SchemaRequired(schema).xs[j].name \notin DOMAIN data.f } }
       \cup UNION { Lacks(data.f[key], SchemaProps(schema).f[key],
                          path \o "." \o key) :
                      key \in DOMAIN SchemaProps(schema).f \cap DOMAIN data.f }
  ELSE IF data.k = "list" /\ Truthy(SchemaItems(schema))
  THEN UNION { Lacks(data.xs[i], SchemaItems(schema),
                     path \o "[" \o ToString(i - 1) \o "]") :
                 i \in DOMAIN data.xs }
  ELSE {}

\* The error the validator words for a value of another type at the root.
RootTypeError ==
  "root: expected " \o ListRepr(TypesList(SchemaType(arg.schema)))
    \o ", got " \o arg.data.k

\* C25: when the document conforms to the schema but for one object that
\* lacks one key its schema requires, _validate_schema returns the list of
\* the one error "<path>: missing required key '<name>'", with the path of
\* that object.
C25_OneMissingKeyOneError ==
  (/\ fn = "_validate_schema"
   /\ WellFormed(arg.schema)
   /\ Conforms(arg.data, arg.schema, FALSE)
   /\ Cardinality(Lacks(arg.data, arg.schema, "root")) = 1) =>
    LET l == CHOOSE x \in Lacks(arg.data, arg.schema, "root") : TRUE
    IN  ret = [outcome |-> "return",
               errors |-> Some(<<l[1] \o ": missing required key '" \o l[2] \o "'">>)]

\* C26: on every document that conforms to the schema, _validate_schema
\* returns the empty list.
C26_ConformingNoErrors ==
  (/\ fn = "_validate_schema"
   /\ WellFormed(arg.schema)
   /\ Conforms(arg.data, arg.schema, TRUE)) =>
    ret = [outcome |-> "return", errors |-> Some(<<>>)]

\* The call was given a list, and the type of the schema names a primitive.
PrimitiveTyped ==
  /\ fn = "_validate_schema"
  /\ arg.schema.k = "dict"
  /\ ~IsNone(arg.errors)
  /\ Truthy(SchemaType(arg.schema))
  /\ \E t \in {"string", "number", "integer"} :
       Listed(t, TypesList(SchemaType(arg.schema)))

\* C27: at a node whose type names string, number or integer, a value whose
\* kind is one of the listed types gets no type error, and every other value
\* (a boolean where integer or number is listed, too) gets the one error
\* "<path>: expected <types>, got <type>" and nothing else.
C27_PrimitiveKindExact ==
  PrimitiveTyped =>
    IF HasListedType(arg.data, TypesList(SchemaType(arg.schema)))
    THEN /\ ret.outcome = "return"
         /\ \A i \in DOMAIN Get(ret.errors) : Get(ret.errors)[i] # RootTypeError
    ELSE ret = [outcome |-> "return", errors |-> Some(<<RootTypeError>>)]

\* The call was given a list, and the type of the schema names object or
\* array, and besides them null at most.
ContainerTyped ==
  /\ fn = "_validate_schema"
  /\ arg.schema.k = "dict"
  /\ ~IsNone(arg.errors)
  /\ Truthy(SchemaType(arg.schema))
  /\ \A i \in DOMAIN TypesList(SchemaType(arg.schema)) :
       TypesList(SchemaType(arg.schema))[i].name \in {"object", "array", "null"}
  /\ \E t \in {"object", "array"} :
       Listed(t, TypesList(SchemaType(arg.schema)))

\* C28: at a node whose type names only object, array and null, a value of
\* a kind that is not listed (an array for an object, an object for an
\* array, a primitive, null) gets a type error.
C28_ContainerKindChecked ==
  (ContainerTyped /\ ~HasListedType(arg.data, TypesList(SchemaType(arg.schema)))) =>
    /\ ret.outcome = "return"
    /\ \E i \in DOMAIN Get(ret.errors) : Get(ret.errors)[i] = RootTypeError

\* C29: _validate_schema returns, never raises, and what it returns is a
\* list; the empty list when the schema is no mapping.
C29_ValidateReturnsList ==
  fn = "_validate_schema" =>
    /\ ret.outcome = "return"
    /\ ~IsNone(ret.errors)
    /\ arg.schema.k # "dict" => ret.errors = Some(<<>>)

\* The entries of origin_dest_pairs of the raw snapshot of the call.
RawPairs == DictGet(Get(arg.raw), "origin_dest_pairs", EmptyList).xs

\* C30: on every raw snapshot that can be read, whatever the contract file
\* is, transform_run returns after writing a document with the snapshot's
\* run_timestamp_utc and, in the order of origin_dest_pairs, the record
\* _transform_record makes of each entry; it raises only on a snapshot that
\* cannot be read.
C30_TransformRunWrites ==
  (fn = "transform_run" /\ ~IsNone(arg.raw)) =>
    /\ ret.outcome = "return"
    /\ ~IsNone(ret.written)
    /\ Get(ret.written).f.run_timestamp_utc =
         DictGet(Get(arg.raw), "run_timestamp_utc", JNone)
    /\ Len(Get(ret.written).f.flights.xs) = Len(RawPairs)
    /\ \A i \in DOMAIN RawPairs :
         RecReturned(Get(ret.written).f.flights.xs[i]) = _transform_record(RawPairs[i])

\* C31: whenever transform_run returns on an input, the document at the
\* input's output path is the one the first run on that input wrote, however
\* many runs on this and on other inputs the process has made since, and no
\* run changes a raw snapshot.
C31_StageDeterministic ==
  fn = "transform_run stage" =>
    /\ \A q \in StageInputs :
         (ret.last = q /\ ret.outcome = "return") =>
           ret.files[OutputPath(q)] = ret.first[q]
    /\ ret.files[RawA] = arg.files[RawA]
    /\ ret.files[RawB] = arg.files[RawB]

\* The third run of a process was the second on the first snapshot, after a
\* run on the other one, and wrote two flights.
C31_Witness ==
  /\ fn = "transform_run stage"
  /\ ret.last = RawA
  /\ ret.outcome = "return"
  /\ ret.times[RawA] = 2
  /\ ret.times[RawB] = 1
  /\ ~IsNone(ret.files[OutputPath(RawA)])
  /\ Len(Get(ret.files[OutputPath(RawA)]).f.flights.xs) = 2

\* The k-th record of RunOutput was appended for an offer of the route being
\* processed.
OfCurrentRoute(k) == prov[k].route = ri /\ prov[k].offer <= Len(metadata)

\* The offer the k-th record was appended for.
SourceOffer(k) == metadata[prov[k].offer]

\* C32: every record appended while a route is processed derives from an
\* offer whose source matches one of the route's programs, in normal mode
\* and in degraded mode alike.
C32_RecordsOnlyFromMatchingOffers ==
  \A k \in 1..Len(prov) :
    OfCurrentRoute(k) =>
      _program_matches(SourceOffer(k).source, RoutePrograms(ri))

\* The offer at place o of the search result has a record in RunOutput.
HasRecord(o) ==
  \E k \in 1..Len(prov) : prov[k].route = ri /\ prov[k].offer = o

\* C33: every offer of a successful search result that survives truncation
\* and matches a program of the route has at least one record in RunOutput
\* once it has been processed, whatever the enrichment call answered.
C33_NoMatchingOfferLost ==
  pc \in {"OfferLoop", "EnrichFetch"} =>
    \A o \in 1..Len(offerLog) :
      _program_matches(metadata[o].source, RoutePrograms(ri)) => HasRecord(o)

\* The offer's source is absent or the empty string.
NoSource(meta) == IsNone(meta.source) \/ Get(meta.source) = EmptyStr

\* C34: a source that is absent or empty matches no program of the route,
\* so outside degraded mode no enrichment call is issued for an offer
\* without a source and no record derives from it.
C34_NoSourceNoEnrichment ==
  /\ pc = "EnrichFetch" => ~NoSource(Meta)
  /\ \A k \in 1..Len(prov) :
       OfCurrentRoute(k) /\ offerLog[prov[k].offer] # "degraded" =>
         ~NoSource(SourceOffer(k))

\* C35: _transform_record returns, equal to its input, every record that
\* _build_records and _build_minimal_record build.
C35_TransformIsIdentityOnEngineRecords ==
  fn = "_transform_record of built" =>
    \A i \in 1..Len(ret.records) :
      ret.transformed[i] = RecReturned(LoadRecord(ret.records[i]))

\* Two enriched records of one offer went through _transform_record, the
\* first with an amount of points, a cash amount and a duration.
C35_Witness ==
  /\ fn = "_transform_record of built"
  /\ ret.builder = "run: _build_records"
  /\ Len(ret.records) = 2
  /\ ret.records[1].pricing.points_amount = Some(75000)
  /\ ~IsNone(ret.records[1].pricing.cash_copay_amount)
  /\ ~IsNone(ret.records[1].duration)
  /\ Len(ret.records[2].legs) = 2
  /\ ret.transformed[1].outcome = "return"

\* run() is past the browser setup and has not written its snapshot.
InRouteLoop == pc \in {"SearchFetch", "OfferLoop", "EnrichFetch", "Pause", "Write"}

\* Every counter of run() and of _page_fetch_json is within the range its
\* loop gives it, and the calls of one operation within retries * retries.
LoopCountersBounded ==
  /\ ri \in 0..(NumRoutes + 1)
  /\ attempt <= retries /\ attempt_enrich <= retries /\ fattempt <= retries
  /\ retries >= 1 => attempt < retries /\ attempt_enrich < retries
                     /\ fattempt < retries
  /\ Len(metadata) <= nmeta
  /\ opCalls <= retries * retries

\* C36: every run ends, and a run that is past the browser setup ends in
\* Finished: run() is given up only from Idle, the route loop is left only
\* for the write that leads to Finished, every loop counter stays within
\* its range, and Finished is left by no step.
C36_RunTerminates ==
  /\ <>(pc \in {"Finished", "Aborted"})
  /\ [][pc' = "Aborted" => pc = "Idle"]_vars
  /\ [][InRouteLoop => InRouteLoop' \/ pc' = "Finished"]_vars
  /\ [][pc = "Finished" => pc' = "Finished"]_vars
  /\ []LoopCountersBounded

\* The run is over after a route went into degraded mode with every attempt
\* of the retry loops used.
C36_Witness ==
  /\ pc = "Finished"
  /\ retries = MaxRetries
  /\ skip_rest
  /\ term429 >= 2
  /\ Len(origin_dest_pairs) >= 3

====
